---- MODULE Spec2Model ----
(***************************************************************************)
(* coraza-ban-wasm: the per-request filter state machine, the local        *)
(* shared-data ban and score stores, and the ban service.                  *)
(*                                                                         *)
(* Spec     the request state machine (OnHttpRequestHeaders, the remote    *)
(*          ban-check callback, OnHttpResponseHeaders) of several request  *)
(*          contexts over one shared-data table; every hook and callback   *)
(*          runs to completion, as on one proxy worker.                    *)
(* SpecSvc  the BanService API (CheckBan, IssueBan) over the local stores. *)
(* SpecCas  LocalScoreStore.IncrScore of several request contexts on       *)
(*          different workers, one shared-data host call per step.         *)
(* SpecCookie  the request state machine under inject_cookie.              *)
(* SpecScore   the LocalScoreStore API (GetScore, IncrScore) and           *)
(*          ScoreEntry.DecayScore, called directly.                        *)
(* SpecIssue   issueDirectBan of several request contexts on different     *)
(*          workers, one host call per step.                               *)
(* SpecPlugin  the request state machine under the configuration that     *)
(*          ParseConfig makes of the plugin configuration data.            *)
(* SpecFp   FingerprintService.CalculateWithDetails over the attributes of *)
(*          successive requests.                                           *)
(***************************************************************************)
EXTENDS Integers, Sequences, FiniteSets, TLC

(***************************************************************************)
(* Bounds of the model.                                                    *)
(***************************************************************************)
\* the clock runs from 0 to MaxTime (epoch seconds)
MaxTime == 2
\* the configured score_threshold and score_decay_seconds
ScoreThreshold == 60
ScoreDecaySeconds == 1
\* the number of BanService calls in a behavior of SpecSvc
MaxCalls == 3
\* ban_ttl_default of the checked configuration, in seconds
TTLDefault == 1
\* ban_ttl_by_severity["high"] of the checked configuration, in seconds
TTLHigh == 2
\* the number of fingerprint calculations in a behavior of SpecFp
MaxRequests == 2

\* request contexts (one HTTP transaction each)
Ctx == {"r1", "r2", "r3"}
\* client fingerprints (hex SHA-256 strings in the program, never empty)
FPs == {"fpA", "fpB"}

VARIABLES
    now,      \* time.Now().Unix()
    config,   \* *PluginConfig, fixed at plugin start
    shared,   \* the proxy's shared-data table: key -> [data, cas]
    http,     \* the httpContext of every request, with what the proxy saw of it
    svc,      \* BanService: the last call's result and the events handed to the EventHandler
    cas,      \* SpecCas: the position and locals of every store call in progress
    api       \* the direct calls of store and entry methods, with their results

vars == <<now, config, shared, http, svc, cas, api>>

(***************************************************************************)
(* Types and keys.                                                         *)
(***************************************************************************)
banKeyPrefix == "ban:"
scoreKeyPrefix == "score:"

BanKey(fingerprint) == banKeyPrefix \o fingerprint

ScoreKey(fingerprint) == scoreKeyPrefix \o fingerprint

Keys == {BanKey(f) : f \in FPs} \cup {ScoreKey(f) : f \in FPs}

\* a byte string: empty, or the JSON text of an object, or text that is no JSON
EmptyBytes == [kind |-> "empty"]

JSONBytes(obj) == [kind |-> "json", obj |-> obj]

GarbageBytes == [kind |-> "garbage"]

NewBanEntry(fingerprint, reason, ruleID, severity, ttl) ==
    [fingerprint |-> fingerprint, reason |-> reason, rule_id |-> ruleID,
     severity |-> severity, created_at |-> now, expires_at |-> now + ttl,
     ttl |-> ttl, score |-> 0]

\* variant of IsExpired: a record never expires
IsExpired_never(b) == FALSE

IsExpired(b) == now > b.expires_at

\* json.Marshal of a BanEntry: "score" carries omitempty
BanEntryToJSON(b) ==
    JSONBytes(IF b.score = 0
              THEN [f \in (DOMAIN b) \ {"score"} |-> b[f]]
              ELSE b)

\* json.Unmarshal into a BanEntry: [err, entry]; an absent "score" decodes to 0
BanEntryFromJSON(data) ==
    IF data.kind # "json"
    THEN [err |-> TRUE]
    ELSE [err |-> FALSE,
          entry |-> [fingerprint |-> data.obj.fingerprint,
                     reason |-> data.obj.reason,
                     rule_id |-> data.obj.rule_id,
                     severity |-> data.obj.severity,
                     created_at |-> data.obj.created_at,
                     expires_at |-> data.obj.expires_at,
                     ttl |-> data.obj.ttl,
                     score |-> IF "score" \in DOMAIN data.obj
                               THEN data.obj.score ELSE 0]]

\* strings.ToLower on the action strings the WAF is modelled to send
ToLower(s) ==
    CASE s = "BLOCK" -> "block"
      [] s = "Deny" -> "deny"
      [] OTHER -> s

IsBlocked(m) == ToLower(m.Action) \in {"block", "deny", "drop"}

\* NewScoreEntry
NewScoreEntry(fingerprint) ==
    [fingerprint |-> fingerprint, score |-> 0, last_updated |-> now, rule_hits |-> <<>>]

\* ScoreEntry.AddScore
AddScore(s, ruleID, severity, score) ==
    [s EXCEPT !.score = @ + score,
              !.last_updated = now,
              !.rule_hits = Append(@, [rule_id |-> ruleID, severity |-> severity,
                                       score |-> score, timestamp |-> now])]

\* variant of DecayScore: the score is not stopped at zero
DecayScore_noFloor(s, decaySeconds) ==
    IF decaySeconds <= 0 THEN s
    ELSE LET decay == (now - s.last_updated) \div decaySeconds
         IN  IF decay > 0
             THEN [s EXCEPT !.score = @ - decay, !.last_updated = now]
             ELSE s

\* ScoreEntry.DecayScore: one point per whole decay interval since last_updated
DecayScore(s, decaySeconds) ==
    IF decaySeconds <= 0 THEN s
    ELSE LET decay == (now - s.last_updated) \div decaySeconds
         IN  IF decay > 0
             THEN [s EXCEPT !.score = IF @ - decay < 0 THEN 0 ELSE @ - decay,
                            !.last_updated = now]
             ELSE s

\* json.Marshal of a ScoreEntry: "rule_hits" carries omitempty
ScoreEntryToJSON(s) ==
    JSONBytes(IF s.rule_hits = <<>>
              THEN [f \in {"fingerprint", "score", "last_updated"} |-> s[f]]
              ELSE s)

\* ScoreEntryFromJSON: [err, entry]
ScoreEntryFromJSON(data) ==
    IF data.kind # "json" THEN [err |-> TRUE]
    ELSE [err |-> FALSE,
          entry |-> [fingerprint |-> data.obj.fingerprint,
                     score |-> data.obj.score,
                     last_updated |-> data.obj.last_updated,
                     rule_hits |-> IF "rule_hits" \in DOMAIN data.obj
                                   THEN data.obj.rule_hits ELSE <<>>]]

(***************************************************************************)
(* Configuration.                                                          *)
(***************************************************************************)
GetBanTTL(severity) ==
    IF severity \in DOMAIN config.BanTTLBySeverity
    THEN config.BanTTLBySeverity[severity]
    ELSE config.BanTTLDefault

\* PluginConfig.GetScore: the rule's own score, else the severity's, else 10
PluginConfig_GetScore(ruleID, severity) ==
    IF ruleID \in DOMAIN config.ScoreRules THEN config.ScoreRules[ruleID]
    ELSE IF severity \in DOMAIN config.ScoreBySeverity
         THEN config.ScoreBySeverity[severity]
    ELSE 10

(***************************************************************************)
(* The shared-data primitive of the proxy.                                 *)
(***************************************************************************)
\* proxywasm.GetSharedData: a key never set reports NotFound, no data and cas 0
GetSharedData(tbl, key) ==
    IF tbl[key].cas = 0
    THEN [data |-> EmptyBytes, cas |-> 0, err |-> "NotFound"]
    ELSE [data |-> tbl[key].data, cas |-> tbl[key].cas, err |-> "ok"]

\* proxywasm.SetSharedData: [tbl, err]; cas 0 sets unconditionally, any other
\* cas must be the key's current one; every set gives the key a new cas
SetSharedData(tbl, key, data, c) ==
    IF c # 0 /\ c # tbl[key].cas
    THEN [tbl |-> tbl, err |-> "CasMismatch"]
    ELSE [tbl |-> [tbl EXCEPT ![key] = [data |-> data, cas |-> tbl[key].cas + 1]],
          err |-> "ok"]

(***************************************************************************)
(* cache.go: the local ban cache of a request context.                     *)
(***************************************************************************)
\* setLocalBan: [tbl, err]
setLocalBan(tbl, entry) ==
    LET key == BanKey(entry.fingerprint)
        data == BanEntryToJSON(entry)
        first == SetSharedData(tbl, key, data, GetSharedData(tbl, key).cas)
    IN  IF first.err = "CasMismatch"
        THEN SetSharedData(tbl, key, data, GetSharedData(tbl, key).cas)
        ELSE first

\* deleteLocalBan: the table afterwards (a failed set is only logged)
deleteLocalBan(tbl, fingerprint) ==
    LET key == BanKey(fingerprint)
    IN  SetSharedData(tbl, key, EmptyBytes, GetSharedData(tbl, key).cas).tbl

\* variant of checkLocalBan: a hit renews the record for another ttl seconds
checkLocalBan_sliding(tbl, fingerprint) ==
    LET got == GetSharedData(tbl, BanKey(fingerprint))
        dec == BanEntryFromJSON(got.data)
    IN  IF got.err # "ok" THEN [found |-> FALSE, tbl |-> tbl]
        ELSE IF got.data.kind = "empty" THEN [found |-> FALSE, tbl |-> tbl]
        ELSE IF dec.err THEN [found |-> FALSE, tbl |-> tbl]
        ELSE IF IsExpired(dec.entry)
             THEN [found |-> FALSE, tbl |-> deleteLocalBan(tbl, fingerprint)]
        ELSE [found |-> TRUE, entry |-> dec.entry,
              tbl |-> setLocalBan(tbl, [dec.entry EXCEPT
                          !.expires_at = now + dec.entry.ttl]).tbl]


\* checkLocalBan: [found, entry, tbl]; an expired entry is deleted
checkLocalBan(tbl, fingerprint) ==
    LET got == GetSharedData(tbl, BanKey(fingerprint))
        dec == BanEntryFromJSON(got.data)
    IN  IF got.err # "ok" THEN [found |-> FALSE, tbl |-> tbl]
        ELSE IF got.data.kind = "empty" THEN [found |-> FALSE, tbl |-> tbl]
        ELSE IF dec.err THEN [found |-> FALSE, tbl |-> tbl]
        ELSE IF IsExpired(dec.entry)
             THEN [found |-> FALSE, tbl |-> deleteLocalBan(tbl, fingerprint)]
        ELSE [found |-> TRUE, entry |-> dec.entry, tbl |-> tbl]

\* checkLocalScore: [found, entry]
checkLocalScore(tbl, fingerprint) ==
    LET got == GetSharedData(tbl, ScoreKey(fingerprint))
        dec == ScoreEntryFromJSON(got.data)
    IN  IF got.err # "ok" THEN [found |-> FALSE]
        ELSE IF got.data.kind = "empty" THEN [found |-> FALSE]
        ELSE IF dec.err THEN [found |-> FALSE]
        ELSE [found |-> TRUE, entry |-> dec.entry]

\* setLocalScore: [tbl, err]
setLocalScore(tbl, entry) ==
    LET key == ScoreKey(entry.fingerprint)
        data == ScoreEntryToJSON(entry)
        first == SetSharedData(tbl, key, data, GetSharedData(tbl, key).cas)
    IN  IF first.err = "CasMismatch"
        THEN SetSharedData(tbl, key, data, GetSharedData(tbl, key).cas)
        ELSE first

\* updateScore: [score, tbl]; a failed save is only logged
updateScore(tbl, fingerprint, ruleID, severity, scoreIncrement) ==
    LET got == checkLocalScore(tbl, fingerprint)
        entry == IF got.found THEN got.entry ELSE NewScoreEntry(fingerprint)
        added == AddScore(DecayScore(entry, config.ScoreDecaySeconds),
                          ruleID, severity, scoreIncrement)
    IN  [score |-> added.score, tbl |-> setLocalScore(tbl, added).tbl]

(***************************************************************************)
(* The httpContext of a request and what the proxy saw of it.              *)
(***************************************************************************)
NoResponse == [status |-> 0]

\* NewHttpContext, with the proxy's view of the request: phase (where the
\* transaction stands), action (what OnHttpRequestHeaders returned), response
\* (the local reply sent with SendHttpResponse), resumed (the number of
\* ResumeHttpRequest calls), calls (the HTTP calls dispatched, in order) and
\* delivered (the unexpired ban record, as stored bytes, that the reply to the
\* remote ban check carried; empty if it carried none) and setCookie (the
\* Set-Cookie header added to the response with AddHttpResponseHeader)
NewHttpContext ==
    [phase |-> "new", fingerprint |-> "", generatedCookie |-> "",
     isBanned |-> FALSE, pendingRedis |-> FALSE, action |-> "none",
     response |-> NoResponse, resumed |-> 0, calls |-> <<>>,
     delivered |-> EmptyBytes, setCookie |-> <<>>]

\* proxywasm.DispatchHttpCall to the Redis cluster; ok is the proxy's answer
\* (accepted and in flight, or refused), recorded for the calls whose caller
\* acts on it
DispatchHttpCall(x, cmd, key, ok) ==
    [x EXCEPT !.calls = Append(@, [cmd |-> cmd, key |-> key, ok |-> ok])]

\* variant of denyRequest: the x-ban-reason header is left out
denyRequest_noReasonHeader(x) ==
    IF config.DryRun THEN x
    ELSE [x EXCEPT !.response =
            [status |-> config.BanResponseCode,
             headers |-> {<<"content-type", "text/plain">>},
             body |-> config.BanResponseBody]]

\* variant of denyRequest: dry_run is not consulted
denyRequest_ignoreDryRun(x) ==
    [x EXCEPT !.response =
        [status |-> config.BanResponseCode,
         headers |-> {<<"content-type", "text/plain">>, <<"x-ban-reason", "coraza-ban-wasm">>},
         body |-> config.BanResponseBody]]

\* variant of denyRequest: under dry_run the banned flag is taken back
denyRequest_dryRunUnflags(x) ==
    IF config.DryRun
    THEN [x EXCEPT !.isBanned = FALSE]
    ELSE [x EXCEPT !.response =
            [status |-> config.BanResponseCode,
             headers |-> {<<"content-type", "text/plain">>, <<"x-ban-reason", "coraza-ban-wasm">>},
             body |-> config.BanResponseBody]]


\* denyRequest: the context afterwards (the hook's return value is continue)
denyRequest(x) ==
    IF config.DryRun
    THEN x
    ELSE [x EXCEPT !.response =
             [status |-> config.BanResponseCode,
              headers |-> {<<"content-type", "text/plain">>,
                           <<"x-ban-reason", "coraza-ban-wasm">>},
              body |-> config.BanResponseBody]]

(***************************************************************************)
(* redis.go: the remote (Redis over HTTP) ban check of a request context.  *)
(***************************************************************************)
\* variant of checkRedisBanAsync: pendingRedis is not cleared when the dispatch
\* is refused
checkRedisBanAsync_keepPending(x, ok) ==
    IF config.RedisCluster = "" THEN x
    ELSE [DispatchHttpCall(x, "GET", BanKey(x.fingerprint), ok) EXCEPT !.pendingRedis = TRUE]

\* checkRedisBanAsync; ok is the proxy's answer to the dispatch
checkRedisBanAsync(x, ok) ==
    IF config.RedisCluster = ""
    THEN x
    ELSE [DispatchHttpCall(x, "GET", BanKey(x.fingerprint), ok)
             EXCEPT !.pendingRedis = ok]

\* deleteRedisBanAsync (fire and forget: a refused dispatch is only logged)
deleteRedisBanAsync(x, fingerprint) ==
    IF config.RedisCluster = ""
    THEN x
    ELSE DispatchHttpCall(x, "DEL", BanKey(fingerprint), TRUE)

\* setRedisBanAsync (a refused dispatch is only logged, and so is the reply)
setRedisBanAsync(x, entry) ==
    IF config.RedisCluster = ""
    THEN x
    ELSE DispatchHttpCall(x, "SETEX", BanKey(entry.fingerprint), TRUE)

\* the body of a reply to GET /GET/<key>: none, text that is no JSON, an object
\* without "GET", {"GET": null}, {"GET": 1}, or {"GET": "<value>"} with the
\* stored bytes as value
EmptyBody == [kind |-> "empty"]

StringBody(value) == [kind |-> "string", value |-> value]

\* variant of parseRedisBanResponse: an expired record is reported absent
\* without the delete being dispatched
parseRedisBanResponse_noDelete(x, body) ==
    LET dec == BanEntryFromJSON(IF body.kind = "string" THEN body.value
                                ELSE GarbageBytes)
    IN  IF body.kind \in {"empty", "notjson", "nokey", "null", "number"}
        THEN [found |-> FALSE, x |-> x]
        ELSE IF dec.err THEN [found |-> FALSE, x |-> x]
        ELSE IF IsExpired(dec.entry) THEN [found |-> FALSE, x |-> x]
        ELSE [found |-> TRUE, entry |-> dec.entry, x |-> x]


\* parseRedisBanResponse: [found, entry, x]
parseRedisBanResponse(x, body) ==
    LET dec == BanEntryFromJSON(IF body.kind = "string" THEN body.value
                                ELSE GarbageBytes)
    IN  IF body.kind \in {"empty", "notjson", "nokey", "null", "number"}
        THEN [found |-> FALSE, x |-> x]
        ELSE IF dec.err THEN [found |-> FALSE, x |-> x]
        ELSE IF IsExpired(dec.entry)
             THEN [found |-> FALSE, x |-> deleteRedisBanAsync(x, x.fingerprint)]
        ELSE [found |-> TRUE, entry |-> dec.entry, x |-> x]

(***************************************************************************)
(* ban.go: ban check and issuance of a request context.                    *)
(***************************************************************************)
\* a nil *BanEntry or *CorazaMetadata
Nil == [nil |-> TRUE]

\* checkBan: [banned, x, tbl]; ok answers the dispatch of the remote check
checkBan(x, tbl, ok) ==
    IF x.fingerprint = ""
    THEN [banned |-> FALSE, x |-> x, tbl |-> tbl]
    ELSE LET l == checkLocalBan(tbl, x.fingerprint)
         IN  IF l.found
             THEN [banned |-> TRUE, x |-> [x EXCEPT !.isBanned = TRUE], tbl |-> l.tbl]
             ELSE [banned |-> FALSE,
                   x |-> IF config.RedisCluster # ""
                         THEN checkRedisBanAsync(x, ok) ELSE x,
                   tbl |-> l.tbl]

\* issueDirectBan: [x, tbl]
issueDirectBan(x, tbl, ruleID, severity) ==
    LET ttl == GetBanTTL(severity)
        entry == NewBanEntry(x.fingerprint, "waf-rule:" \o ruleID, ruleID, severity, ttl)
    IN  [x |-> IF config.RedisCluster # ""
               THEN setRedisBanAsync(x, entry) ELSE x,
         tbl |-> setLocalBan(tbl, entry).tbl]

\* issueScoreBasedBan: [x, tbl]
issueScoreBasedBan(x, tbl, ruleID, severity) ==
    LET u == updateScore(tbl, x.fingerprint, ruleID, severity,
                         PluginConfig_GetScore(ruleID, severity))
        entry == [NewBanEntry(x.fingerprint, "score-threshold:" \o ToString(u.score),
                              ruleID, severity, GetBanTTL(severity))
                    EXCEPT !.score = u.score]
    IN  IF u.score >= config.ScoreThreshold
        THEN [x |-> IF config.RedisCluster # ""
                    THEN setRedisBanAsync(x, entry) ELSE x,
              tbl |-> setLocalBan(u.tbl, entry).tbl]
        ELSE [x |-> x, tbl |-> u.tbl]

\* issueBan: [x, tbl]
issueBan(x, tbl, metadata) ==
    LET severity == IF metadata.Severity = "" THEN "medium" ELSE metadata.Severity
        ruleID == IF metadata.RuleID = "" THEN "unknown" ELSE metadata.RuleID
    IN  IF x.fingerprint = "" \/ metadata = Nil
        THEN [x |-> x, tbl |-> tbl]
        ELSE IF config.ScoringEnabled
             THEN issueScoreBasedBan(x, tbl, ruleID, severity)
        ELSE issueDirectBan(x, tbl, ruleID, severity)

\* resumeHttpRequest
resumeHttpRequest(x) == [x EXCEPT !.resumed = @ + 1]

\* variant of handleRedisBanResponse: the banned branch returns after the deny
\* without resuming
handleRedisBanResponse_noResume(x, tbl, banned, entry) ==
    LET x1 == [x EXCEPT !.pendingRedis = FALSE]
    IN  IF banned /\ entry # Nil
        THEN [x |-> denyRequest([x1 EXCEPT !.isBanned = TRUE]),
              tbl |-> setLocalBan(tbl, entry).tbl]
        ELSE [x |-> resumeHttpRequest(x1), tbl |-> tbl]

\* variant of handleRedisBanResponse: the record is not synced to the local store
handleRedisBanResponse_noSync(x, tbl, banned, entry) ==
    LET x1 == [x EXCEPT !.pendingRedis = FALSE]
    IN  IF banned /\ entry # Nil
        THEN [x |-> resumeHttpRequest(denyRequest([x1 EXCEPT !.isBanned = TRUE])),
              tbl |-> tbl]
        ELSE [x |-> resumeHttpRequest(x1), tbl |-> tbl]

\* handleRedisBanResponse: [x, tbl]
handleRedisBanResponse(x, tbl, banned, entry) ==
    LET x1 == [x EXCEPT !.pendingRedis = FALSE]
    IN  IF banned /\ entry # Nil
        THEN [x |-> resumeHttpRequest(denyRequest([x1 EXCEPT !.isBanned = TRUE])),
              tbl |-> setLocalBan(tbl, entry).tbl]
        ELSE [x |-> resumeHttpRequest(x1), tbl |-> tbl]

\* variant of onRedisBanCheckResponse: the :status header is not looked at
onRedisBanCheckResponse_anyStatus(x, tbl, reply) ==
    LET p == parseRedisBanResponse(x, reply.body)
    IN  IF ~reply.readable THEN handleRedisBanResponse(x, tbl, FALSE, Nil)
        ELSE handleRedisBanResponse(p.x, tbl, p.found,
                                    IF p.found THEN p.entry ELSE Nil)

\* onRedisBanCheckResponse: [x, tbl]; reply is [readable, status, body]
onRedisBanCheckResponse(x, tbl, reply) ==
    LET p == parseRedisBanResponse(x, reply.body)
    IN  IF ~reply.readable THEN handleRedisBanResponse(x, tbl, FALSE, Nil)
        ELSE IF reply.status # "200" THEN handleRedisBanResponse(x, tbl, FALSE, Nil)
        ELSE handleRedisBanResponse(p.x, tbl, p.found,
                                    IF p.found THEN p.entry ELSE Nil)

(***************************************************************************)
(* The proxy's view: what it sends to a request context.                   *)
(***************************************************************************)
\* the WAF decisions MetadataService.Extract is modelled to return
Decisions ==
    {[Action |-> "block", RuleID |-> "930120", Severity |-> "high"],
     [Action |-> "Deny", RuleID |-> "", Severity |-> ""],
     [Action |-> "log", RuleID |-> "930120", Severity |-> "high"]}

\* the ban records another proxy of the fleet, of the same configuration, can
\* have stored under ban:<fingerprint> by now
FleetEntries(fingerprint) ==
    {[fingerprint |-> fingerprint, reason |-> "waf-rule:" \o r, rule_id |-> r,
      severity |-> s, created_at |-> t, expires_at |-> t + GetBanTTL(s),
      ttl |-> GetBanTTL(s), score |-> 0] :
        r \in {"930120"}, s \in {"high"}, t \in 0..now}

\* the replies to a dispatched GET /GET/ban:<fingerprint>: a timeout or a
\* transport error (no status, no body), an unreadable body, an error status,
\* and status 200 with each body
Replies(fingerprint) ==
    {[readable |-> TRUE, status |-> "", body |-> EmptyBody],
     [readable |-> FALSE, status |-> "200", body |-> EmptyBody],
     [readable |-> TRUE, status |-> "500", body |-> [kind |-> "null"]]}
    \cup {[readable |-> TRUE, status |-> "500",
           body |-> StringBody(BanEntryToJSON(e))] : e \in FleetEntries(fingerprint)}
    \cup {[readable |-> TRUE, status |-> "200", body |-> [kind |-> k]] :
             k \in {"empty", "notjson", "nokey", "null", "number"}}
    \cup {[readable |-> TRUE, status |-> "200", body |-> StringBody(GarbageBytes)]}
    \cup {[readable |-> TRUE, status |-> "200",
           body |-> StringBody(BanEntryToJSON(e))] : e \in FleetEntries(fingerprint)}

(***************************************************************************)
(* The hooks and callbacks of a request context.                           *)
(***************************************************************************)
\* context ids are handed out in the order the requests arrive
Earlier(d, c) == <<d, c>> \in {<<"r1", "r2">>, <<"r1", "r3">>, <<"r2", "r3">>}

\* the tracking cookie CalculateWithDetails generates for a request: one only
\* when inject_cookie is on and the request carried none (the client of fpB
\* presents its tracking cookie, the client of fpA presents none)
GeneratedCookies(fp) ==
    IF config.InjectCookie /\ fp = "fpA" THEN {"c00c1e"} ELSE {""}

\* OnHttpRequestHeaders of request c with fingerprint fp and generated tracking
\* cookie gen (fingerprints are interchangeable: the first request is taken to
\* present fpA)
OnHttpRequestHeaders(c, fp, gen, ok) ==
    /\ http[c].phase = "new"
    /\ \A d \in Ctx : Earlier(d, c) => http[d].phase # "new"
    /\ c = "r1" => fp = "fpA"
    /\ LET r == checkBan([http[c] EXCEPT !.fingerprint = fp,
                                         !.generatedCookie = gen], shared, ok)
           x == IF r.banned THEN denyRequest(r.x) ELSE r.x
           action == IF r.banned THEN "continue"
                     ELSE IF x.pendingRedis THEN "pause" ELSE "continue"
       IN  /\ http' = [http EXCEPT ![c] =
                  [x EXCEPT !.action = action,
                            !.phase = IF action = "pause" THEN "paused"
                                      ELSE IF x.response # NoResponse THEN "replied"
                                      ELSE "upstream"]]
           /\ shared' = r.tbl
    /\ UNCHANGED <<now, config, svc, cas, api>>

\* the unexpired ban record, as stored bytes, that a reply carries: status 200
\* and a readable body {"GET": "<ban entry>"}; empty for every other reply
ReplyRecord(reply) ==
    IF /\ reply.readable
       /\ reply.status = "200"
       /\ reply.body.kind = "string"
       /\ reply.body.value.kind = "json"
       /\ now <= reply.body.value.obj.expires_at
    THEN reply.body.value
    ELSE EmptyBytes

\* the reply to the remote ban check of paused request c is delivered
OnRedisBanCheckResponse(c, reply) ==
    /\ http[c].phase = "paused"
    /\ LET r == onRedisBanCheckResponse(http[c], shared, reply)
       IN  /\ http' = [http EXCEPT ![c] =
                  [r.x EXCEPT !.phase = IF r.x.response # NoResponse
                                        THEN "replied" ELSE "upstream",
                              !.delivered = ReplyRecord(reply)]]
           /\ shared' = r.tbl
    /\ UNCHANGED <<now, config, svc, cas, api>>

\* variant of injectCookie: the cookie is sent without its attributes
injectCookie_noAttributes(x) ==
    [x EXCEPT !.setCookie = <<config.CookieName, "=", x.generatedCookie, "">>]

\* injectCookie: the Set-Cookie header with the generated tracking cookie
injectCookie(x) ==
    [x EXCEPT !.setCookie =
        <<config.CookieName, "=", x.generatedCookie,
          "; Path=/; HttpOnly; SameSite=Strict">>]

\* the ban logic of onHttpResponseHeaders, for a request that is not banned:
\* a blocking WAF decision, or the 403 fallback
detectWAFBlock(x, tbl, statusCode, metadata) ==
    IF metadata # Nil /\ IsBlocked(metadata)
    THEN issueBan(x, tbl, metadata)
    ELSE IF statusCode = 403 /\ x.fingerprint # ""
    THEN issueBan(x, tbl,
                  [Action |-> "block", RuleID |-> "waf-403", Severity |-> "medium"])
    ELSE [x |-> x, tbl |-> tbl]

\* variant of onHttpResponseHeaders: isBanned is not consulted
onHttpResponseHeaders_noBannedSkip(x, tbl, statusCode, metadata) ==
    LET r == detectWAFBlock(x, tbl, statusCode, metadata)
    IN  IF config.InjectCookie /\ r.x.generatedCookie # ""
        THEN [r EXCEPT !.x = injectCookie(r.x)]
        ELSE r

\* onHttpResponseHeaders: [x, tbl]
onHttpResponseHeaders(x, tbl, statusCode, metadata) ==
    IF x.isBanned
    THEN [x |-> x, tbl |-> tbl]
    ELSE LET r == detectWAFBlock(x, tbl, statusCode, metadata)
         IN  IF config.InjectCookie /\ r.x.generatedCookie # ""
             THEN [r EXCEPT !.x = injectCookie(r.x)]
             ELSE r

\* OnHttpResponseHeaders of request c: the upstream's response, or the local
\* reply sent by denyRequest
OnHttpResponseHeaders(c, statusCode, metadata) ==
    /\ http[c].phase \in {"upstream", "replied"}
    /\ http[c].phase = "replied" =>
          statusCode = http[c].response.status /\ metadata = Nil
    /\ LET r == onHttpResponseHeaders(http[c], shared, statusCode, metadata)
       IN  /\ http' = [http EXCEPT ![c] = [r.x EXCEPT !.phase = "done"]]
           /\ shared' = r.tbl
    /\ UNCHANGED <<now, config, svc, cas, api>>

\* a second passes
Tick ==
    /\ now < MaxTime
    /\ now' = now + 1
    /\ UNCHANGED <<config, shared, http, svc, cas, api>>

(***************************************************************************)
(* The request state machine.                                              *)
(***************************************************************************)
\* the configurations checked: DefaultConfig with redis_cluster set or empty,
\* dry_run on or off, and the ban TTLs scaled to the clock
Configs ==
    {[RedisCluster |-> rc, BanTTLDefault |-> TTLDefault,
      BanTTLBySeverity |-> [high |-> TTLHigh], ScoringEnabled |-> se,
      ScoreThreshold |-> ScoreThreshold, ScoreDecaySeconds |-> ScoreDecaySeconds,
      ScoreBySeverity |-> [critical |-> 50, high |-> 40, medium |-> 20, low |-> 10],
      ScoreRules |-> [r \in {"942100"} |-> 60],
      BanResponseCode |-> 403, BanResponseBody |-> "Forbidden", DryRun |-> dr,
      FingerprintMode |-> "full", CookieName |-> "__bm", InjectCookie |-> ic] :
        rc \in {"", "redis_cluster"}, se \in BOOLEAN, dr \in BOOLEAN,
        ic \in BOOLEAN}

\* a context that has not called IncrScore yet
IdleCall ==
    [pc |-> "idle", fingerprint |-> "", increment |-> 0, entry |-> Nil, cas |-> 0,
     score |-> 0, err |-> "", attempts |-> 0]

InitStores ==
    /\ now = 0
    /\ shared = [k \in Keys |-> [data |-> EmptyBytes, cas |-> 0]]
    /\ http = [c \in Ctx |-> NewHttpContext]
    /\ svc = [events |-> <<>>, result |-> Nil, calls |-> 0]
    /\ cas = [prior |-> [f \in FPs |-> 0], call |-> [c \in Ctx |-> IdleCall]]
    /\ api = <<>>

Init ==
    /\ InitStores
    /\ config \in {cf \in Configs : ~cf.ScoringEnabled /\ ~cf.InjectCookie}

Next ==
    \/ \E c \in Ctx, fp \in FPs, ok \in BOOLEAN :
          \E gen \in GeneratedCookies(fp) : OnHttpRequestHeaders(c, fp, gen, ok)
    \/ \E c \in Ctx :
          \E reply \in Replies(http[c].fingerprint) : OnRedisBanCheckResponse(c, reply)
    \/ \E c \in Ctx, statusCode \in {200, 403}, metadata \in Decisions \cup {Nil} :
          OnHttpResponseHeaders(c, statusCode, metadata)
    \/ Tick

Spec == Init /\ [][Next]_vars

(***************************************************************************)
(* Properties of the request state machine.                                *)
(***************************************************************************)
\* the local store holds an unexpired ban record under ban:<fp>
HasUnexpiredBan(fp) ==
    /\ shared[BanKey(fp)].cas # 0
    /\ shared[BanKey(fp)].data.kind = "json"
    /\ now <= shared[BanKey(fp)].data.obj.expires_at

\* this step is the request-headers hook of request c
IsRequestHeaders(c) == http[c].phase = "new" /\ http'[c].phase # "new"

\* the deny response of the configuration
DenyResponse ==
    [status |-> config.BanResponseCode,
     headers |-> {<<"content-type", "text/plain">>, <<"x-ban-reason", "coraza-ban-wasm">>},
     body |-> config.BanResponseBody]

\* request c was dealt the deny behavior: flagged banned and, unless dry_run is
\* on, sent the deny response
Denied(x) == x.isBanned /\ (IF config.DryRun THEN x.response = NoResponse
                            ELSE x.response = DenyResponse)

\* C1: on request headers with no unexpired local ban for the fingerprint, the
\* hook returns pause exactly when the remote store is configured, the
\* fingerprint is non-empty and the dispatch of the remote ban check was
\* accepted, and pendingRedis is true exactly then; otherwise it returns
\* continue, and without a configured remote store nothing is dispatched.
C1_PauseIffRemoteCheckDispatched ==
    [][\A c \in Ctx :
          (IsRequestHeaders(c) /\ ~HasUnexpiredBan(http'[c].fingerprint)) =>
             LET x == http'[c]
                 accepted == /\ Len(x.calls) = 1
                             /\ x.calls[1] = [cmd |-> "GET", key |-> BanKey(x.fingerprint),
                                              ok |-> TRUE]
             IN  /\ x.action \in {"pause", "continue"}
                 /\ (x.action = "pause") <=>
                       (config.RedisCluster # "" /\ x.fingerprint # "" /\ accepted)
                 /\ x.pendingRedis <=> (x.action = "pause")
                 /\ (x.phase = "paused") <=> (x.action = "pause")
                 /\ config.RedisCluster = "" => x.calls = <<>>
                 /\ ~x.isBanned /\ x.response = NoResponse]_vars

\* C1 witness: one request is paused on an accepted remote check, another went
\* on with continue after its dispatch was refused
C1_Witness ==
    \E c, d \in Ctx :
        /\ http[c].phase = "paused" /\ http[c].action = "pause"
        /\ http[d].action = "continue" /\ ~http[d].isBanned
        /\ Len(http[d].calls) = 1 /\ ~http[d].calls[1].ok

\* C2: a request paused at request headers is resumed exactly once, by the
\* delivery of its remote ban-check reply, which also clears pendingRedis: a
\* request still paused has not been resumed, a request past its pause has
\* been resumed once, and a request that was never paused is never resumed.
C2_PausedResumedExactlyOnce ==
    \A c \in Ctx :
        /\ http[c].phase = "paused" =>
              http[c].action = "pause" /\ http[c].pendingRedis /\ http[c].resumed = 0
        /\ (http[c].action = "pause" /\ http[c].phase # "paused") =>
              ~http[c].pendingRedis /\ http[c].resumed = 1
        /\ http[c].action # "pause" => http[c].resumed = 0 /\ ~http[c].pendingRedis

\* C2 witness: one paused request was resumed after a reply that banned it,
\* another after a reply that did not
C2_Witness ==
    \E c, d \in Ctx :
        /\ http[c].action = "pause" /\ http[c].resumed = 1 /\ http[c].isBanned
        /\ http[d].action = "pause" /\ http[d].resumed = 1 /\ ~http[d].isBanned

\* C3: a deny response is sent for a request only in its request-headers hook
\* when the local store held an unexpired record of that very fingerprint, or
\* on delivery of a remote reply that carries an unexpired record of that very
\* fingerprint.
C3_DenyOnlyOnEvidence ==
    [][\A c \in Ctx :
          (http[c].response = NoResponse /\ http'[c].response # NoResponse) =>
             \/ /\ IsRequestHeaders(c)
                /\ HasUnexpiredBan(http'[c].fingerprint)
                /\ shared[BanKey(http'[c].fingerprint)].data.obj.fingerprint
                      = http'[c].fingerprint
             \/ /\ http[c].phase = "paused"
                /\ \E reply \in Replies(http[c].fingerprint) :
                      /\ OnRedisBanCheckResponse(c, reply)
                      /\ ReplyRecord(reply) # EmptyBytes
                      /\ ReplyRecord(reply).obj.fingerprint = http[c].fingerprint]_vars

\* C3 witness: a request was denied on a local record while the other
\* fingerprint had no record, and a request was denied on a remote record
C3_Witness ==
    \E c, d \in Ctx :
        /\ http[c].response # NoResponse /\ http[c].action = "continue"
        /\ http[d].response # NoResponse /\ http[d].action = "pause"

\* C4: with dry_run off, a request whose fingerprint has an unexpired ban
\* record in the local store is denied in its request-headers hook: isBanned is
\* set, the response with the configured status code, the headers content-type:
\* text/plain and x-ban-reason, and the configured body is sent, the hook
\* returns continue, and no remote ban check is dispatched.
C4_LocalBanDeniesAtRequestHeaders ==
    [][\A c \in Ctx :
          (IsRequestHeaders(c) /\ HasUnexpiredBan(http'[c].fingerprint)
              /\ ~config.DryRun) =>
             /\ http'[c].isBanned
             /\ http'[c].response = DenyResponse
             /\ http'[c].response.status = 403
             /\ http'[c].action = "continue"
             /\ http'[c].calls = <<>>
             /\ ~http'[c].pendingRedis
             /\ shared' = shared]_vars

\* C4 witness: with the remote store configured, a request was denied from the
\* local store
C4_Witness ==
    \E c \in Ctx :
        /\ config.RedisCluster # "" /\ ~config.DryRun
        /\ http[c].isBanned /\ http[c].action = "continue"
        /\ http[c].response = DenyResponse

\* the remote reply delivered to request c carried an unexpired record of its
\* fingerprint
RemoteConfirmed(x) == x.delivered # EmptyBytes

\* this step delivers a reply carrying an unexpired ban record to paused request
\* c; the record is written to the local store, the request is flagged banned
\* and dealt the deny behavior
SyncedOnDelivery(c) ==
    (http[c].phase = "paused" /\ RemoteConfirmed(http'[c])) =>
        /\ shared'[BanKey(http[c].fingerprint)].data = http'[c].delivered
        /\ Denied(http'[c])
        /\ http'[c].resumed = 1

\* request c arrives with the fingerprint of request d, whose remote check had
\* been answered with a record that has not yet reached its expires_at
ArrivesAfterSync(c, d) ==
    /\ IsRequestHeaders(c)
    /\ RemoteConfirmed(http[d])
    /\ http'[c].fingerprint = http[d].fingerprint
    /\ now <= http[d].delivered.obj.expires_at

\* request c is denied from the local store without pausing
DeniedLocally(c) ==
    /\ Denied(http'[c])
    /\ http'[c].action = "continue"
    /\ http'[c].calls = <<>>

\* C5 as stated: a ban confirmed only by the remote store is written to the
\* local store and the request denied, and any later request with the same
\* fingerprint arriving before that record's expires_at is denied from the
\* local store without pausing.
C5_Stated_LaterRequestsDeniedLocally ==
    [][\A c \in Ctx :
          /\ SyncedOnDelivery(c)
          /\ \A d \in Ctx : ArrivesAfterSync(c, d) => DeniedLocally(c)]_vars

\* C5: a ban confirmed only by the remote store is written to the local store
\* and the request denied, and a later request with the same fingerprint
\* arriving before that record's expires_at is denied from the local store
\* without pausing as long as the local store still holds that record; a later
\* ban issued or synced for the fingerprint replaces it with its own expiry.
C5_LaterRequestsDeniedWhileRecordHeld ==
    [][\A c \in Ctx :
          /\ SyncedOnDelivery(c)
          /\ \A d \in Ctx :
                (/\ ArrivesAfterSync(c, d)
                 /\ shared[BanKey(http[d].fingerprint)].data = http[d].delivered)
                   => DeniedLocally(c)]_vars

\* C5 witness: a request was denied on a remote record and a later request of
\* the same fingerprint was denied from the local store holding that record
C5_Witness ==
    \E c, d \in Ctx :
        /\ RemoteConfirmed(http[d]) /\ http[d].isBanned
        /\ Earlier(d, c)
        /\ http[c].fingerprint = http[d].fingerprint
        /\ http[c].isBanned /\ http[c].action = "continue" /\ http[c].calls = <<>>
        /\ shared[BanKey(http[d].fingerprint)].data = http[d].delivered

\* the replies of a remote ban check that failed: timed out, unreadable body,
\* status other than 200, null, or a body that is no envelope of a ban entry
FailedReplies(fingerprint) ==
    {reply \in Replies(fingerprint) :
        ~(/\ reply.readable
          /\ reply.status = "200"
          /\ reply.body.kind = "string"
          /\ reply.body.value.kind = "json")}

\* C6: a failed remote ban check is treated as "no ban": when the dispatch is
\* refused the request goes on with continue, not flagged, no deny response sent
\* and no record written; when the reply is a failure the request is not
\* flagged, no deny response is sent, the local store is left as it was and the
\* request is resumed.
C6_FailedRemoteCheckIsAbsent ==
    [][\A c \in Ctx :
          /\ (/\ IsRequestHeaders(c)
              /\ http'[c].calls # <<>>
              /\ ~http'[c].calls[1].ok) =>
                 /\ ~http'[c].isBanned
                 /\ http'[c].response = NoResponse
                 /\ http'[c].action = "continue"
                 /\ ~http'[c].pendingRedis
                 /\ \A k \in Keys : shared'[k] = shared[k] \/ shared'[k].data = EmptyBytes
          /\ (http[c].phase = "paused" /\ http'[c].phase # "paused") =>
               \A reply \in FailedReplies(http[c].fingerprint) :
                  OnRedisBanCheckResponse(c, reply) =>
                    /\ ~http'[c].isBanned
                    /\ http'[c].response = NoResponse
                    /\ shared' = shared
                    /\ http'[c].resumed = 1
                    /\ ~http'[c].pendingRedis
                    /\ http'[c].phase = "upstream"]_vars

\* C6 witness: one request went on after a refused dispatch, another was
\* resumed unflagged after a reply that carried no record
C6_Witness ==
    \E c, d \in Ctx :
        /\ http[c].calls # <<>> /\ ~http[c].calls[1].ok /\ http[c].action = "continue"
        /\ http[d].action = "pause" /\ http[d].resumed = 1 /\ ~http[d].isBanned
        /\ http[d].delivered = EmptyBytes

\* C7: with dry_run on, no deny response is ever sent: a request banned locally
\* gets continue from the request-headers hook, a request banned by the remote
\* reply is resumed, and every request is left without a local response and
\* goes on upstream.
C7_DryRunNeverDenies ==
    config.DryRun =>
        \A c \in Ctx :
            /\ http[c].response = NoResponse
            /\ http[c].phase # "replied"
            /\ (http[c].isBanned /\ http[c].delivered = EmptyBytes) =>
                  http[c].action = "continue"
            /\ (http[c].isBanned /\ http[c].delivered # EmptyBytes) =>
                  http[c].action = "pause" /\ http[c].resumed = 1

\* C7 witness: with dry_run on, one request was found banned in the local store
\* and another by the remote store, and both went on upstream
C7_Witness ==
    /\ config.DryRun
    /\ \E c, d \in Ctx :
          /\ http[c].isBanned /\ http[c].action = "continue"
          /\ http[c].phase \in {"upstream", "done"}
          /\ http[d].isBanned /\ http[d].action = "pause"
          /\ http[d].phase \in {"upstream", "done"}

(***************************************************************************)
(* store_local.go: LocalBanStore and LocalScoreStore.                      *)
(***************************************************************************)
\* variant of LocalBanStore.SetBan: a record already stored is kept
LocalBanStore_SetBan_keepExisting(tbl, entry) ==
    LET key == BanKey(entry.fingerprint)
        data == BanEntryToJSON(entry)
    IN  IF tbl[key].cas # 0 /\ tbl[key].data.kind # "empty"
        THEN [tbl |-> tbl, err |-> "ok"]
        ELSE SetSharedData(tbl, key, data, GetSharedData(tbl, key).cas)

\* LocalBanStore.SetBan: [tbl, err]
LocalBanStore_SetBan(tbl, entry) ==
    LET key == BanKey(entry.fingerprint)
        data == BanEntryToJSON(entry)
        first == SetSharedData(tbl, key, data, GetSharedData(tbl, key).cas)
    IN  IF first.err = "CasMismatch"
        THEN SetSharedData(tbl, key, data, GetSharedData(tbl, key).cas)
        ELSE first

\* variant of LocalBanStore.DeleteBan: the ban records of all fingerprints are
\* emptied
LocalBanStore_DeleteBan_allBans(tbl, fingerprint) ==
    [k \in Keys |->
        IF \E f \in FPs : k = BanKey(f) /\ tbl[k].cas # 0
        THEN [data |-> EmptyBytes, cas |-> tbl[k].cas + 1]
        ELSE tbl[k]]


\* LocalBanStore.DeleteBan: the table afterwards
LocalBanStore_DeleteBan(tbl, fingerprint) ==
    LET key == BanKey(fingerprint)
    IN  SetSharedData(tbl, key, EmptyBytes, GetSharedData(tbl, key).cas).tbl

\* variant of LocalBanStore.CheckBan: an expired entry is left in place
LocalBanStore_CheckBan_noDelete(tbl, fingerprint) ==
    LET got == GetSharedData(tbl, BanKey(fingerprint))
        dec == BanEntryFromJSON(got.data)
    IN  IF got.err # "ok" THEN [found |-> FALSE, tbl |-> tbl]
        ELSE IF got.data.kind = "empty" THEN [found |-> FALSE, tbl |-> tbl]
        ELSE IF dec.err THEN [found |-> FALSE, tbl |-> tbl]
        ELSE IF IsExpired(dec.entry) THEN [found |-> FALSE, tbl |-> tbl]
        ELSE [found |-> TRUE, entry |-> dec.entry, tbl |-> tbl]

\* LocalBanStore.CheckBan: [found, entry, tbl]; an expired entry is deleted
LocalBanStore_CheckBan(tbl, fingerprint) ==
    LET got == GetSharedData(tbl, BanKey(fingerprint))
        dec == BanEntryFromJSON(got.data)
    IN  IF got.err # "ok" THEN [found |-> FALSE, tbl |-> tbl]
        ELSE IF got.data.kind = "empty" THEN [found |-> FALSE, tbl |-> tbl]
        ELSE IF dec.err THEN [found |-> FALSE, tbl |-> tbl]
        ELSE IF IsExpired(dec.entry)
             THEN [found |-> FALSE, tbl |-> LocalBanStore_DeleteBan(tbl, fingerprint)]
        ELSE [found |-> TRUE, entry |-> dec.entry, tbl |-> tbl]

\* variant of LocalScoreStore.GetScore: the entry is decayed as it is read
LocalScoreStore_GetScore_decays(tbl, fingerprint) ==
    LET got == GetSharedData(tbl, ScoreKey(fingerprint))
        dec == ScoreEntryFromJSON(got.data)
    IN  IF got.err # "ok" THEN [found |-> FALSE]
        ELSE IF got.data.kind = "empty" THEN [found |-> FALSE]
        ELSE IF dec.err THEN [found |-> FALSE]
        ELSE [found |-> TRUE,
              entry |-> DecayScore(dec.entry, config.ScoreDecaySeconds)]

\* LocalScoreStore.GetScore: [found, entry]
LocalScoreStore_GetScore(tbl, fingerprint) ==
    LET got == GetSharedData(tbl, ScoreKey(fingerprint))
        dec == ScoreEntryFromJSON(got.data)
    IN  IF got.err # "ok" THEN [found |-> FALSE]
        ELSE IF got.data.kind = "empty" THEN [found |-> FALSE]
        ELSE IF dec.err THEN [found |-> FALSE]
        ELSE [found |-> TRUE, entry |-> dec.entry]

\* LocalScoreStore.SetScore: [tbl, err]
LocalScoreStore_SetScore(tbl, entry) ==
    LET key == ScoreKey(entry.fingerprint)
        data == ScoreEntryToJSON(entry)
        first == SetSharedData(tbl, key, data, GetSharedData(tbl, key).cas)
    IN  IF first.err = "CasMismatch"
        THEN SetSharedData(tbl, key, data, GetSharedData(tbl, key).cas)
        ELSE first

\* variant of LocalScoreStore.IncrScore: the entry is saved before the
\* increment is added
LocalScoreStore_IncrScore_savesFirst(tbl, fingerprint, increment) ==
    LET got == LocalScoreStore_GetScore(tbl, fingerprint)
        entry == IF got.found THEN got.entry ELSE NewScoreEntry(fingerprint)
        decayed == DecayScore(entry, config.ScoreDecaySeconds)
        set == LocalScoreStore_SetScore(tbl, decayed)
    IN  [score |-> decayed.score + increment, err |-> set.err, tbl |-> set.tbl]

\* LocalScoreStore.IncrScore, run to completion: [score, err, tbl]
LocalScoreStore_IncrScore(tbl, fingerprint, increment) ==
    LET got == LocalScoreStore_GetScore(tbl, fingerprint)
        entry == IF got.found THEN got.entry ELSE NewScoreEntry(fingerprint)
        decayed == DecayScore(entry, config.ScoreDecaySeconds)
        added == [decayed EXCEPT !.score = @ + increment]
        set == LocalScoreStore_SetScore(tbl, added)
    IN  [score |-> added.score, err |-> set.err, tbl |-> set.tbl]

(***************************************************************************)
(* service_ban.go: BanService and its events.                              *)
(***************************************************************************)
\* NewBanEvent
NewBanEvent(eventType, fingerprint, ruleID, severity, source) ==
    [Type |-> eventType, Fingerprint |-> fingerprint, RuleID |-> ruleID,
     Severity |-> severity, Timestamp |-> now, Source |-> source,
     Score |-> 0, Threshold |-> 0, TTL |-> 0]

\* variant of BanService.CheckBan: a ban found is reported without an event
BanService_CheckBan_noEvent(tbl, fingerprint) ==
    LET l == LocalBanStore_CheckBan(tbl, fingerprint)
    IN  IF fingerprint = ""
        THEN [result |-> [IsBanned |-> FALSE, Entry |-> Nil], events |-> <<>>, tbl |-> tbl]
        ELSE IF l.found
             THEN [result |-> [IsBanned |-> TRUE, Entry |-> l.entry],
                   events |-> <<>>, tbl |-> l.tbl]
        ELSE [result |-> [IsBanned |-> FALSE, Entry |-> Nil], events |-> <<>>,
              tbl |-> l.tbl]

\* BanService.CheckBan: [result, events, tbl]
BanService_CheckBan(tbl, fingerprint) ==
    LET l == LocalBanStore_CheckBan(tbl, fingerprint)
    IN  IF fingerprint = ""
        THEN [result |-> [IsBanned |-> FALSE, Entry |-> Nil], events |-> <<>>, tbl |-> tbl]
        ELSE IF l.found
             THEN [result |-> [IsBanned |-> TRUE, Entry |-> l.entry],
                   events |-> <<NewBanEvent("enforced", fingerprint, l.entry.rule_id,
                                            l.entry.severity, "local")>>,
                   tbl |-> l.tbl]
        ELSE [result |-> [IsBanned |-> FALSE, Entry |-> Nil], events |-> <<>>,
              tbl |-> l.tbl]

\* variant of BanService.issueDirectBan: the default ttl whatever the severity
BanService_issueDirectBan_defaultTTL(tbl, fingerprint, ruleID, severity) ==
    LET ttl == config.BanTTLDefault
        entry == NewBanEntry(fingerprint, "waf-rule:" \o ruleID, ruleID, severity, ttl)
        set == LocalBanStore_SetBan(tbl, entry)
    IN  IF set.err # "ok"
        THEN [result |-> [Issued |-> FALSE, Entry |-> Nil, Score |-> 0],
              events |-> <<>>, tbl |-> set.tbl]
        ELSE [result |-> [Issued |-> TRUE, Entry |-> entry, Score |-> 0],
              events |-> <<[NewBanEvent("issued", fingerprint, ruleID, severity, "local")
                              EXCEPT !.TTL = ttl]>>,
              tbl |-> set.tbl]

\* BanService.issueDirectBan: [result, events, tbl]
BanService_issueDirectBan(tbl, fingerprint, ruleID, severity) ==
    LET ttl == GetBanTTL(severity)
        entry == NewBanEntry(fingerprint, "waf-rule:" \o ruleID, ruleID, severity, ttl)
        set == LocalBanStore_SetBan(tbl, entry)
    IN  IF set.err # "ok"
        THEN [result |-> [Issued |-> FALSE, Entry |-> Nil, Score |-> 0],
              events |-> <<>>, tbl |-> set.tbl]
        ELSE [result |-> [Issued |-> TRUE, Entry |-> entry, Score |-> 0],
              events |-> <<[NewBanEvent("issued", fingerprint, ruleID, severity, "local")
                              EXCEPT !.TTL = ttl]>>,
              tbl |-> set.tbl]

\* variant of BanService.issueScoreBasedBan: the ban needs a score above the
\* threshold
BanService_issueScoreBasedBan_above(tbl, fingerprint, ruleID, severity) ==
    LET incr == LocalScoreStore_IncrScore(tbl, fingerprint,
                                          PluginConfig_GetScore(ruleID, severity))
        newScore == incr.score
        scoreEvent == [NewBanEvent("score_updated", fingerprint, ruleID, severity, "local")
                         EXCEPT !.Score = newScore, !.Threshold = config.ScoreThreshold]
        ttl == GetBanTTL(severity)
        entry == [NewBanEntry(fingerprint, "score-threshold:" \o ToString(newScore),
                              ruleID, severity, ttl)
                    EXCEPT !.score = newScore]
        set == LocalBanStore_SetBan(incr.tbl, entry)
        issuedEvent == [NewBanEvent("issued", fingerprint, ruleID, severity, "local")
                          EXCEPT !.TTL = ttl, !.Score = newScore]
    IN  IF newScore > config.ScoreThreshold
        THEN [result |-> [Issued |-> TRUE, Entry |-> entry, Score |-> newScore],
              events |-> <<scoreEvent, issuedEvent>>, tbl |-> set.tbl]
        ELSE [result |-> [Issued |-> FALSE, Entry |-> Nil, Score |-> newScore],
              events |-> <<scoreEvent>>, tbl |-> incr.tbl]

\* variant of BanService.issueScoreBasedBan: the score record is reset when the
\* ban is issued
BanService_issueScoreBasedBan_resetScore(tbl, fingerprint, ruleID, severity) ==
    LET scoreIncrement == PluginConfig_GetScore(ruleID, severity)
        incr == LocalScoreStore_IncrScore(tbl, fingerprint, scoreIncrement)
        newScore == incr.score
        scoreEvent == [NewBanEvent("score_updated", fingerprint, ruleID, severity, "local")
                         EXCEPT !.Score = newScore, !.Threshold = config.ScoreThreshold]
        ttl == GetBanTTL(severity)
        entry == [NewBanEntry(fingerprint, "score-threshold:" \o ToString(newScore),
                              ruleID, severity, ttl)
                    EXCEPT !.score = newScore]
        set == LocalBanStore_SetBan(incr.tbl, entry)
        issuedEvent == [NewBanEvent("issued", fingerprint, ruleID, severity, "local")
                          EXCEPT !.TTL = ttl, !.Score = newScore]
    IN  IF incr.err # "ok"
        THEN [result |-> [Issued |-> FALSE, Entry |-> Nil, Score |-> 0],
              events |-> <<>>, tbl |-> incr.tbl]
        ELSE IF newScore >= config.ScoreThreshold
             THEN [result |-> [Issued |-> TRUE, Entry |-> entry, Score |-> newScore],
                   events |-> <<scoreEvent, issuedEvent>>,
                   tbl |-> LocalScoreStore_SetScore(set.tbl,
                                                    NewScoreEntry(fingerprint)).tbl]
        ELSE [result |-> [Issued |-> FALSE, Entry |-> Nil, Score |-> newScore],
              events |-> <<scoreEvent>>, tbl |-> incr.tbl]


\* BanService.issueScoreBasedBan: [result, events, tbl]
BanService_issueScoreBasedBan(tbl, fingerprint, ruleID, severity) ==
    LET scoreIncrement == PluginConfig_GetScore(ruleID, severity)
        incr == LocalScoreStore_IncrScore(tbl, fingerprint, scoreIncrement)
        newScore == incr.score
        scoreEvent == [NewBanEvent("score_updated", fingerprint, ruleID, severity, "local")
                         EXCEPT !.Score = newScore, !.Threshold = config.ScoreThreshold]
        ttl == GetBanTTL(severity)
        entry == [NewBanEntry(fingerprint, "score-threshold:" \o ToString(newScore),
                              ruleID, severity, ttl)
                    EXCEPT !.score = newScore]
        set == LocalBanStore_SetBan(incr.tbl, entry)
        issuedEvent == [NewBanEvent("issued", fingerprint, ruleID, severity, "local")
                          EXCEPT !.TTL = ttl, !.Score = newScore]
    IN  IF incr.err # "ok"
        THEN [result |-> [Issued |-> FALSE, Entry |-> Nil, Score |-> 0],
              events |-> <<>>, tbl |-> incr.tbl]
        ELSE IF newScore >= config.ScoreThreshold
             THEN IF set.err # "ok"
                  THEN [result |-> [Issued |-> FALSE, Entry |-> Nil, Score |-> newScore],
                        events |-> <<scoreEvent>>, tbl |-> set.tbl]
                  ELSE [result |-> [Issued |-> TRUE, Entry |-> entry, Score |-> newScore],
                        events |-> <<scoreEvent, issuedEvent>>, tbl |-> set.tbl]
        ELSE [result |-> [Issued |-> FALSE, Entry |-> Nil, Score |-> newScore],
              events |-> <<scoreEvent>>, tbl |-> incr.tbl]

\* variant of BanService.IssueBan: a nil decision is given the default
\* severity and rule id
BanService_IssueBan_nilAsDefault(tbl, fingerprint, metadata) ==
    LET severity == IF metadata = Nil \/ metadata.Severity = "" THEN "medium"
                    ELSE metadata.Severity
        ruleID == IF metadata = Nil \/ metadata.RuleID = "" THEN "unknown"
                  ELSE metadata.RuleID
    IN  IF fingerprint = ""
        THEN [result |-> [Issued |-> FALSE, Entry |-> Nil, Score |-> 0],
              events |-> <<>>, tbl |-> tbl]
        ELSE IF config.ScoringEnabled
             THEN BanService_issueScoreBasedBan(tbl, fingerprint, ruleID, severity)
        ELSE BanService_issueDirectBan(tbl, fingerprint, ruleID, severity)

\* BanService.IssueBan: [result, events, tbl]
BanService_IssueBan(tbl, fingerprint, metadata) ==
    LET severity == IF metadata.Severity = "" THEN "medium" ELSE metadata.Severity
        ruleID == IF metadata.RuleID = "" THEN "unknown" ELSE metadata.RuleID
    IN  IF fingerprint = "" \/ metadata = Nil
        THEN [result |-> [Issued |-> FALSE, Entry |-> Nil, Score |-> 0],
              events |-> <<>>, tbl |-> tbl]
        ELSE IF config.ScoringEnabled
             THEN BanService_issueScoreBasedBan(tbl, fingerprint, ruleID, severity)
        ELSE BanService_issueDirectBan(tbl, fingerprint, ruleID, severity)

(***************************************************************************)
(* The ban service called by a client: its events are collected in order.  *)
(***************************************************************************)
\* the WAF decisions handed to IssueBan
SvcDecisions ==
    {[Action |-> "block", RuleID |-> "930120", Severity |-> "high"],
     [Action |-> "Deny", RuleID |-> "", Severity |-> ""],
     [Action |-> "drop", RuleID |-> "942100", Severity |-> "low"]}

\* a call of BanService.CheckBan
CheckBan(fingerprint) ==
    /\ svc.calls < MaxCalls
    /\ LET r == BanService_CheckBan(shared, fingerprint)
       IN  /\ svc' = [events |-> svc.events \o r.events,
                      result |-> r.result, calls |-> svc.calls + 1]
           /\ shared' = r.tbl
    /\ UNCHANGED <<now, config, http, cas, api>>

\* a call of BanService.IssueBan
IssueBan(fingerprint, metadata) ==
    /\ svc.calls < MaxCalls
    /\ LET r == BanService_IssueBan(shared, fingerprint, metadata)
       IN  /\ svc' = [events |-> svc.events \o r.events,
                      result |-> r.result, calls |-> svc.calls + 1]
           /\ shared' = r.tbl
    /\ UNCHANGED <<now, config, http, cas, api>>

InitSvc ==
    /\ InitStores
    /\ config \in {cf \in Configs :
                       cf.RedisCluster = "" /\ ~cf.DryRun /\ ~cf.InjectCookie}

NextSvc ==
    \/ \E fingerprint \in FPs \cup {""} : CheckBan(fingerprint)
    \/ \E fingerprint \in FPs \cup {""}, metadata \in SvcDecisions \cup {Nil} :
          IssueBan(fingerprint, metadata)
    \/ Tick

SpecSvc == InitSvc /\ [][NextSvc]_vars

(***************************************************************************)
(* Properties of the ban service.                                          *)
(***************************************************************************)
\* the severity and rule id a decision is normalized to
NormalSeverity(m) == IF m.Severity = "" THEN "medium" ELSE m.Severity
NormalRuleID(m) == IF m.RuleID = "" THEN "unknown" ELSE m.RuleID

\* the ban TTL configured for a severity
ConfiguredTTL(severity) ==
    IF severity \in DOMAIN config.BanTTLBySeverity
    THEN config.BanTTLBySeverity[severity]
    ELSE config.BanTTLDefault

\* the events the last step appended to the collected ones
Emitted == SubSeq(svc'.events, Len(svc.events) + 1, Len(svc'.events))

\* C8: with scoring off, IssueBan for a blocking decision and a non-empty
\* fingerprint writes one ban record, under ban:<fp>, with reason
\* "waf-rule:<rule_id>" and the ttl configured for the severity, else the
\* default ttl (empty severity read as "medium", empty rule id as "unknown"),
\* emits exactly one event, issued with source local and that ttl, and a
\* CheckBan of the fingerprint then finds the ban; a later CheckBan while the
\* record is unexpired reports banned.
C8_DirectBanIssued ==
    [][/\ \A fp \in FPs, m \in SvcDecisions :
            (~config.ScoringEnabled /\ IsBlocked(m) /\ IssueBan(fp, m)) =>
               LET ttl == ConfiguredTTL(NormalSeverity(m))
               IN  /\ shared'[BanKey(fp)].data =
                         JSONBytes([fingerprint |-> fp,
                                    reason |-> "waf-rule:" \o NormalRuleID(m),
                                    rule_id |-> NormalRuleID(m),
                                    severity |-> NormalSeverity(m),
                                    created_at |-> now,
                                    expires_at |-> now + ttl,
                                    ttl |-> ttl])
                   /\ \A k \in Keys \ {BanKey(fp)} : shared'[k] = shared[k]
                   /\ svc'.result.Issued
                   /\ Len(Emitted) = 1
                   /\ Emitted[1].Type = "issued"
                   /\ Emitted[1].Source = "local"
                   /\ Emitted[1].TTL = ttl
                   /\ Emitted[1].Fingerprint = fp
                   /\ BanService_CheckBan(shared', fp).result.IsBanned
       /\ \A fp \in FPs :
            (~config.ScoringEnabled /\ HasUnexpiredBan(fp) /\ CheckBan(fp)) =>
               svc'.result.IsBanned]_vars

\* C8 witness: a direct ban was issued for a decision with empty severity and
\* rule id, and the next call found the fingerprint banned at a later time
C8_Witness ==
    /\ ~config.ScoringEnabled
    /\ Len(svc.events) = 2
    /\ svc.events[1].Type = "issued" /\ svc.events[1].RuleID = "unknown"
    /\ svc.events[1].Severity = "medium" /\ svc.events[1].TTL = TTLDefault
    /\ svc.events[2].Type = "enforced"
    /\ svc.events[2].Fingerprint = svc.events[1].Fingerprint
    /\ svc.events[2].Timestamp > svc.events[1].Timestamp
    /\ svc.result.IsBanned

\* the score IncrScore starts from: the stored score after the decay due at
\* this time, 0 when no score is stored
DecayedScore(fp) ==
    LET cell == shared[ScoreKey(fp)]
        due == (now - cell.data.obj.last_updated) \div config.ScoreDecaySeconds
    IN  IF cell.cas = 0 \/ cell.data.kind # "json" THEN 0
        ELSE IF cell.data.obj.score - due < 0 THEN 0
        ELSE cell.data.obj.score - due

\* C9: with scoring on, IssueBan for a blocking decision adds the configured
\* increment (the rule's score, else the severity's, else 10) to the
\* fingerprint's score after decay, stores it and emits one score_updated event
\* carrying it; a ban with reason "score-threshold:<new_score>" and score =
\* new_score is written and an issued event emitted on that call if and only if
\* new_score >= score_threshold.
C9_ScoreBanAtThreshold ==
    [][\A fp \in FPs, m \in SvcDecisions :
          (config.ScoringEnabled /\ IsBlocked(m) /\ IssueBan(fp, m)) =>
             LET increment ==
                     IF NormalRuleID(m) \in DOMAIN config.ScoreRules
                     THEN config.ScoreRules[NormalRuleID(m)]
                     ELSE IF NormalSeverity(m) \in DOMAIN config.ScoreBySeverity
                          THEN config.ScoreBySeverity[NormalSeverity(m)]
                     ELSE 10
                 newScore == DecayedScore(fp) + increment
                 ttl == ConfiguredTTL(NormalSeverity(m))
             IN  /\ shared'[ScoreKey(fp)].data.obj.score = newScore
                 /\ svc'.result.Score = newScore
                 /\ Emitted[1].Type = "score_updated"
                 /\ Emitted[1].Score = newScore
                 /\ Emitted[1].Threshold = config.ScoreThreshold
                 /\ svc'.result.Issued <=> (newScore >= config.ScoreThreshold)
                 /\ IF newScore >= config.ScoreThreshold
                    THEN /\ shared'[BanKey(fp)].data =
                               JSONBytes([fingerprint |-> fp,
                                          reason |-> "score-threshold:" \o ToString(newScore),
                                          rule_id |-> NormalRuleID(m),
                                          severity |-> NormalSeverity(m),
                                          created_at |-> now,
                                          expires_at |-> now + ttl,
                                          ttl |-> ttl,
                                          score |-> newScore])
                         /\ Len(Emitted) = 2
                         /\ Emitted[2].Type = "issued"
                         /\ Emitted[2].Score = newScore
                    ELSE /\ shared'[BanKey(fp)] = shared[BanKey(fp)]
                         /\ Len(Emitted) = 1]_vars

\* C9 witness: three medium hits of 20 against threshold 60 gave the scores 20,
\* 40 and 60, and the ban was issued on the third only
C9_Witness ==
    /\ config.ScoringEnabled /\ config.ScoreThreshold = 60
    /\ Len(svc.events) = 4
    /\ \A i \in 1..3 : /\ svc.events[i].Type = "score_updated"
                       /\ svc.events[i].Severity = "medium"
                       /\ svc.events[i].Score = 20 * i
                       /\ svc.events[i].Fingerprint = "fpA"
    /\ svc.events[4].Type = "issued" /\ svc.events[4].Score = 60
    /\ svc.result.Issued
    /\ svc.result.Entry.reason = "score-threshold:60"
    /\ svc.result.Entry.score = 60

(***************************************************************************)
(* LocalScoreStore.IncrScore of request contexts on different workers: the *)
(* shared-data table is shared by all workers, and between two host calls   *)
(* of one context any other context may run.                               *)
(***************************************************************************)
\* IncrScore up to the call of SetScore: GetScore (one GetSharedData), the
\* zero entry if none is stored, DecayScore and the addition
IncrScore_GetScore(c, fingerprint, increment) ==
    /\ cas.call[c].pc = "idle"
    /\ LET got == LocalScoreStore_GetScore(shared, fingerprint)
           entry == IF got.found THEN got.entry ELSE NewScoreEntry(fingerprint)
           decayed == DecayScore(entry, config.ScoreDecaySeconds)
           added == [decayed EXCEPT !.score = @ + increment]
       IN  cas' = [cas EXCEPT !.call[c] =
                     [IdleCall EXCEPT !.pc = "SetScore", !.fingerprint = fingerprint,
                                      !.increment = increment, !.entry = added,
                                      !.score = added.score]]
    /\ UNCHANGED <<now, config, shared, http, svc, api>>

\* SetScore: GetSharedData for the current cas of the key
SetScore_GetCas(c) ==
    /\ cas.call[c].pc = "SetScore"
    /\ cas' = [cas EXCEPT !.call[c].pc = "Set",
                          !.call[c].cas =
                              GetSharedData(shared, ScoreKey(cas.call[c].fingerprint)).cas]
    /\ UNCHANGED <<now, config, shared, http, svc, api>>

\* SetScore: SetSharedData with that cas; on a mismatch the retry follows
SetScore_Set(c) ==
    /\ cas.call[c].pc = "Set"
    /\ LET w == cas.call[c]
           set == SetSharedData(shared, ScoreKey(w.fingerprint),
                                ScoreEntryToJSON(w.entry), w.cas)
       IN  /\ shared' = set.tbl
           /\ cas' = [cas EXCEPT !.call[c].pc = IF set.err = "CasMismatch"
                                                THEN "Retry" ELSE "done",
                                 !.call[c].err = set.err,
                                 !.call[c].attempts = @ + 1]
    /\ UNCHANGED <<now, config, http, svc, api>>

\* SetScore, the retry: GetSharedData for the new cas
SetScore_RetryGetCas(c) ==
    /\ cas.call[c].pc = "Retry"
    /\ cas' = [cas EXCEPT !.call[c].pc = "RetrySet",
                          !.call[c].cas =
                              GetSharedData(shared, ScoreKey(cas.call[c].fingerprint)).cas]
    /\ UNCHANGED <<now, config, shared, http, svc, api>>

\* SetScore, the retry: SetSharedData with the new cas, whose outcome IncrScore
\* returns
SetScore_RetrySet(c) ==
    /\ cas.call[c].pc = "RetrySet"
    /\ LET w == cas.call[c]
           set == SetSharedData(shared, ScoreKey(w.fingerprint),
                                ScoreEntryToJSON(w.entry), w.cas)
       IN  /\ shared' = set.tbl
           /\ cas' = [cas EXCEPT !.call[c].pc = "done", !.call[c].err = set.err,
                                 !.call[c].attempts = @ + 1]
    /\ UNCHANGED <<now, config, http, svc, api>>

\* the score records a fingerprint may have before the calls: none, or one an
\* earlier IncrScore of 20 left
PriorScores == {0, 20}

PriorTable(prior) ==
    [k \in Keys |->
        IF \E f \in FPs : k = ScoreKey(f) /\ prior[f] # 0
        THEN [data |-> ScoreEntryToJSON(
                         [fingerprint |-> CHOOSE f \in FPs : k = ScoreKey(f),
                          score |-> prior[CHOOSE f \in FPs : k = ScoreKey(f)],
                          last_updated |-> 0, rule_hits |-> <<>>]),
              cas |-> 1]
        ELSE [data |-> EmptyBytes, cas |-> 0]]

InitCas ==
    /\ now = 0
    /\ config \in {cf \in Configs :
                       /\ cf.RedisCluster = "" /\ ~cf.DryRun
                       /\ cf.ScoringEnabled /\ ~cf.InjectCookie}
    /\ http = [c \in Ctx |-> NewHttpContext]
    /\ svc = [events |-> <<>>, result |-> Nil, calls |-> 0]
    /\ api = <<>>
    /\ \E prior \in [FPs -> PriorScores] :
          /\ shared = PriorTable(prior)
          /\ cas = [prior |-> prior, call |-> [c \in Ctx |-> IdleCall]]

NextCas ==
    \/ \E c \in Ctx, fingerprint \in FPs, increment \in {20, 40} :
          IncrScore_GetScore(c, fingerprint, increment)
    \/ \E c \in Ctx : SetScore_GetCas(c)
    \/ \E c \in Ctx : SetScore_Set(c)
    \/ \E c \in Ctx : SetScore_RetryGetCas(c)
    \/ \E c \in Ctx : SetScore_RetrySet(c)

SpecCas == InitCas /\ [][NextCas]_vars

\* the contexts whose IncrScore on fp returned success
Succeeded(fp) ==
    {c \in Ctx : /\ cas.call[c].pc = "done"
                 /\ cas.call[c].fingerprint = fp
                 /\ cas.call[c].err = "ok"}

\* C10 as stated: when two contexts have called IncrScore on the same
\* fingerprint with increments a and b, no decay being due, and both returned
\* success, while no other context touched the fingerprint, the stored score
\* is the prior score + a + b.
C10_Stated_NoIncrementLost ==
    \A fp \in FPs : \A c, d \in Succeeded(fp) :
        (/\ c # d
         /\ \A e \in Ctx \ {c, d} : cas.call[e].fingerprint # fp) =>
            shared[ScoreKey(fp)].data.obj.score =
                cas.prior[fp] + cas.call[c].increment + cas.call[d].increment

(***************************************************************************)
(* Properties of the local stores.                                         *)
(***************************************************************************)
\* the local store holds a ban record, expired or not, under ban:<fp>
HoldsBanRecord(fp) ==
    shared[BanKey(fp)].cas # 0 /\ shared[BanKey(fp)].data.kind = "json"

\* C11: a local ban check of a fingerprint with a stored record returns that
\* record if and only if now <= expires_at, leaving the store as it is; when
\* now > expires_at it reports absent and overwrites the key with empty bytes,
\* so that a read of the key afterwards finds no record.
C11_ExpiredBanAbsentAndDeleted ==
    [][\A fp \in FPs :
          (HoldsBanRecord(fp) /\ CheckBan(fp)) =>
             LET stored == shared[BanKey(fp)].data.obj
             IN  /\ svc'.result.IsBanned <=> (now <= stored.expires_at)
                 /\ (now <= stored.expires_at) =>
                       /\ svc'.result.Entry.fingerprint = fp
                       /\ svc'.result.Entry.expires_at = stored.expires_at
                       /\ svc'.result.Entry.reason = stored.reason
                       /\ shared' = shared
                 /\ (now > stored.expires_at) =>
                       /\ svc'.result.Entry = Nil
                       /\ shared'[BanKey(fp)].data = EmptyBytes
                       /\ ~LocalBanStore_CheckBan(shared', fp).found
                       /\ \A k \in Keys \ {BanKey(fp)} : shared'[k] = shared[k]]_vars

\* C11 witness: a ban was issued, the clock passed its expires_at, and the
\* check that followed reported absent and left empty bytes under the key
C11_Witness ==
    /\ Len(svc.events) = 1 /\ svc.events[1].Type = "issued"
    /\ svc.calls = 2
    /\ svc.result = [IsBanned |-> FALSE, Entry |-> Nil]
    /\ now > svc.events[1].Timestamp + svc.events[1].TTL
    /\ shared[BanKey(svc.events[1].Fingerprint)] = [data |-> EmptyBytes, cas |-> 2]

FallbackBanWritten(c) ==
    LET key == BanKey(http[c].fingerprint)
    IN  /\ shared'[key] # shared[key]
        /\ shared'[key].data.kind = "json"
        /\ shared'[key].data.obj.rule_id = "waf-403"

\* C18: on the response headers of a request that is not banned, the decision
\* {block, medium, waf-403} is synthesized exactly when the extraction
\* yielded no WAF decision and the status is 403, and then a ban with reason
\* "waf-rule:waf-403" and ttl = ban_ttl_default is issued
C18_Stated_FallbackOnlyWithoutDecision ==
    [][\A c \in Ctx, statusCode \in {200, 403}, metadata \in Decisions \cup {Nil} :
          (~http[c].isBanned /\ OnHttpResponseHeaders(c, statusCode, metadata)) =>
             /\ FallbackBanWritten(c) <=> (metadata = Nil /\ statusCode = 403)
             /\ FallbackBanWritten(c) =>
                   LET entry == shared'[BanKey(http[c].fingerprint)].data.obj
                   IN  /\ entry.reason = "waf-rule:waf-403"
                       /\ entry.severity = "medium"
                       /\ entry.ttl = config.BanTTLDefault
                       /\ entry.expires_at = now + config.BanTTLDefault]_vars

(***************************************************************************)
(* The request state machine with cookie injection: the hooks of Spec,     *)
(* under inject_cookie and a configured Redis cluster.                     *)
(***************************************************************************)
InitCookie ==
    /\ InitStores
    /\ config \in {cf \in Configs :
                       /\ cf.InjectCookie /\ cf.RedisCluster # ""
                       /\ ~cf.ScoringEnabled}

SpecCookie == InitCookie /\ [][Next]_vars

\* OnHttpResponseHeaders runs for request c
IsResponseHeaders(c) ==
    http[c].phase \in {"upstream", "replied"} /\ http'[c].phase = "done"

\* C12: when isBanned is set for a request, its response-headers hook changes
\* nothing: no score or ban record is written to the local store, no remote
\* write is dispatched, no event is emitted and no Set-Cookie header is added,
\* whatever the status code and the WAF metadata of the response are
C12_BannedResponseHookDoesNothing ==
    [][\A c \in Ctx :
          (http[c].isBanned /\ IsResponseHeaders(c)) =>
             /\ shared' = shared
             /\ svc' = svc
             /\ http' = [http EXCEPT ![c].phase = "done"]
             /\ http'[c].calls = http[c].calls
             /\ http'[c].setCookie = <<>>]_vars

\* a banned request that generated a tracking cookie went through its response
\* hook without a Set-Cookie header, while a request that was not banned got one
C12_Witness ==
    \E c, d \in Ctx :
        /\ http[c].phase = "done" /\ http[c].isBanned
        /\ http[c].generatedCookie # "" /\ http[c].setCookie = <<>>
        /\ http[d].phase = "done" /\ ~http[d].isBanned
        /\ http[d].setCookie # <<>>

(***************************************************************************)
(* The score store API and the decay of a score entry, called directly.    *)
(***************************************************************************)
\* the decay intervals DecayScore is called with, and the increments of
\* IncrScore (score values of a validated configuration are 1..1000)
DecayIntervals == {-1, 0, 1, 2}
Increments == {1, 3}

\* LocalScoreStore.GetScore(fingerprint)
GetScore(fingerprint) ==
    /\ Len(api) < MaxCalls
    /\ api' = Append(api, [op |-> "GetScore", fingerprint |-> fingerprint,
                           arg |-> 0, at |-> now,
                           out |-> LocalScoreStore_GetScore(shared, fingerprint)])
    /\ UNCHANGED <<now, config, shared, http, svc, cas>>

\* LocalScoreStore.IncrScore(fingerprint, increment), on one worker
IncrScore(fingerprint, increment) ==
    /\ Len(api) < MaxCalls
    /\ LET r == LocalScoreStore_IncrScore(shared, fingerprint, increment)
       IN  /\ api' = Append(api, [op |-> "IncrScore", fingerprint |-> fingerprint,
                                  arg |-> increment, at |-> now,
                                  out |-> [score |-> r.score, err |-> r.err]])
           /\ shared' = r.tbl
    /\ UNCHANGED <<now, config, http, svc, cas>>

\* ScoreEntry.DecayScore(decaySeconds) on the entry read for a fingerprint
ScoreEntry_DecayScore(fingerprint, decaySeconds) ==
    /\ Len(api) < MaxCalls
    /\ LocalScoreStore_GetScore(shared, fingerprint).found
    /\ LET entry == LocalScoreStore_GetScore(shared, fingerprint).entry
       IN  api' = Append(api, [op |-> "DecayScore", fingerprint |-> fingerprint,
                               arg |-> decaySeconds, at |-> now,
                               out |-> [in |-> entry,
                                        entry |-> DecayScore(entry, decaySeconds)]])
    /\ UNCHANGED <<now, config, shared, http, svc, cas>>

InitScore ==
    /\ InitStores
    /\ config \in {cf \in Configs :
                       /\ cf.RedisCluster = "" /\ ~cf.DryRun
                       /\ cf.ScoringEnabled /\ ~cf.InjectCookie}

NextScore ==
    \/ \E fingerprint \in FPs : GetScore(fingerprint)
    \/ \E fingerprint \in FPs, increment \in Increments :
          IncrScore(fingerprint, increment)
    \/ \E fingerprint \in FPs, decaySeconds \in DecayIntervals :
          ScoreEntry_DecayScore(fingerprint, decaySeconds)
    \/ Tick

SpecScore == InitScore /\ [][NextScore]_vars

\* the score entries held by the local store
StoredScores ==
    {shared[ScoreKey(fp)].data.obj :
        fp \in {f \in FPs : /\ shared[ScoreKey(f)].cas # 0
                             /\ shared[ScoreKey(f)].data.kind = "json"}}

\* the direct calls of a method
Calls(op) == {i \in 1..Len(api) : api[i].op = op}

StoredScore(fp) == ScoreEntryFromJSON(shared[ScoreKey(fp)].data).entry

\* the local store holds a score entry for fp
HoldsScore(fp) ==
    shared[ScoreKey(fp)].cas # 0 /\ shared[ScoreKey(fp)].data.kind = "json"

\* C14: GetScore returns the stored entry as it is, however long ago it was
\* last updated, and leaves the store unchanged; IncrScore first reduces the
\* stored score by one point per whole decay interval since last_updated
\* (stopping at zero), then adds the increment, returns that sum and stores it
C14_GetScoreNoDecayIncrScoreDecays ==
    [][\A fp \in FPs :
          /\ GetScore(fp) =>
                /\ shared' = shared
                /\ api'[Len(api')].out.found = HoldsScore(fp)
                /\ HoldsScore(fp) => api'[Len(api')].out.entry = StoredScore(fp)
          /\ \A k \in Increments :
                (HoldsScore(fp) /\ IncrScore(fp, k)) =>
                   LET stored == StoredScore(fp)
                       decay == (now - stored.last_updated)
                                   \div config.ScoreDecaySeconds
                       decayed == IF stored.score - decay < 0 THEN 0
                                  ELSE stored.score - decay
                   IN  /\ api'[Len(api')].out = [score |-> decayed + k, err |-> "ok"]
                       /\ shared'[ScoreKey(fp)].data.obj.score = decayed + k
                       /\ \A key \in Keys \ {ScoreKey(fp)} : shared'[key] = shared[key]]_vars

\* the stated scenario, with a decay interval of one second: a score of 3 last
\* updated at t=0 is read as 3 at t=2, and IncrScore(fp, 1) at t=2 returns
\* 3 - 2 + 1 = 2
C14_Witness ==
    /\ Len(api) = 3
    /\ api[1] = [op |-> "IncrScore", fingerprint |-> "fpA", arg |-> 3, at |-> 0,
                 out |-> [score |-> 3, err |-> "ok"]]
    /\ api[2].op = "GetScore" /\ api[2].fingerprint = "fpA" /\ api[2].at = 2
    /\ api[2].out.found
    /\ api[2].out.entry.score = 3 /\ api[2].out.entry.last_updated = 0
    /\ api[3] = [op |-> "IncrScore", fingerprint |-> "fpA", arg |-> 1, at |-> 2,
                 out |-> [score |-> 2, err |-> "ok"]]
    /\ StoredScore("fpA").score = 2 /\ StoredScore("fpA").last_updated = 2

\* C15: the score a successful IncrScore(fp, k) returned is the score the next
\* GetScore(fp) reads, at whatever time it is called
C15_IncrScoreThenGetScore ==
    \A i \in Calls("IncrScore") :
        \A j \in Calls("GetScore") :
            (/\ i < j
             /\ api[j].fingerprint = api[i].fingerprint
             /\ api[i].out.err = "ok"
             /\ \A m \in Calls("IncrScore") :
                   (i < m /\ m < j) => api[m].fingerprint # api[i].fingerprint)
            => /\ api[j].out.found
               /\ api[j].out.entry.score = api[i].out.score

\* IncrScore decayed a stored score and added to it, and a GetScore two
\* seconds later read the score it had returned
C15_Witness ==
    /\ Len(api) = 3
    /\ api[1].op = "IncrScore" /\ api[1].at = 0
    /\ api[2].op = "IncrScore" /\ api[2].at = 1
    /\ api[2].fingerprint = api[1].fingerprint
    /\ api[2].out.score = api[1].out.score - 1 + api[2].arg
    /\ api[3].op = "GetScore" /\ api[3].at = 2
    /\ api[3].fingerprint = api[2].fingerprint
    /\ api[3].out.entry.score = api[2].out.score

(***************************************************************************)
(* FingerprintService: the fingerprint of a request.  A string is a         *)
(* sequence of its parts (an address: its dot-separated groups), the empty  *)
(* string is <<>>; sha256Hash is taken to be collision-free.                *)
(***************************************************************************)
sha256Hash(input) == [sha256 |-> input]

\* extractIPPrefix: the first three groups of a dotted IPv4 address
extractIPPrefix(ip) == IF Len(ip) = 4 THEN SubSeq(ip, 1, 3) ELSE ip

\* generateCookieValue: the first 16 hex characters of the hash of a string
\* derived from time.Now().UnixNano()
generateCookieValue(nanos) == <<"hex16", nanos>>

\* the last steps of calculateFull and calculatePartial: the tracking cookie,
\* or a generated one under inject_cookie, then the hash of the components
\* joined in order, or of "unknown" if there are none
withCookie(components, cookie, nanos) ==
    LET generated == IF cookie = <<>> /\ config.InjectCookie
                     THEN generateCookieValue(nanos) ELSE <<>>
        all == components
                 \o (IF cookie # <<>> THEN <<[label |-> "cookie", value |-> cookie]>>
                     ELSE IF config.InjectCookie
                     THEN <<[label |-> "cookie", value |-> generated]>>
                     ELSE <<>>)
    IN  [Fingerprint |-> IF Len(all) > 0 THEN sha256Hash(all)
                         ELSE sha256Hash(<<[label |-> "", value |-> <<"unknown">>]>>),
         GeneratedCookie |-> generated]

\* the component of an attribute, left out when the attribute is empty
component(label, value) ==
    IF value # <<>> THEN <<[label |-> label, value |-> value]>> ELSE <<>>

\* variant of calculateFull: the ja3 component is added also when the request
\* has no JA3 value
calculateFull_emptyJA3(ja3, ua, ip, cookie, nanos) ==
    withCookie(<<[label |-> "ja3", value |-> ja3]>> \o component("ua", ua)
                 \o component("ip", extractIPPrefix(ip)), cookie, nanos)


calculateFull(ja3, ua, ip, cookie, nanos) ==
    withCookie(component("ja3", ja3) \o component("ua", ua)
                 \o component("ip", extractIPPrefix(ip)), cookie, nanos)

calculatePartial(ua, ip, cookie, nanos) ==
    withCookie(component("ua", ua) \o component("ip", extractIPPrefix(ip)),
               cookie, nanos)

calculateIPOnly(ip) ==
    [Fingerprint |-> IF ip # <<>> THEN sha256Hash(component("ip", ip))
                     ELSE sha256Hash(<<[label |-> "", value |-> <<"unknown">>]>>),
     GeneratedCookie |-> <<>>]

\* FingerprintService.CalculateWithDetails: [Fingerprint, GeneratedCookie]
CalculateWithDetails(ja3, ua, ip, cookie, nanos) ==
    IF config.FingerprintMode = "ip-only" THEN calculateIPOnly(ip)
    ELSE IF config.FingerprintMode = "partial"
    THEN calculatePartial(ua, ip, cookie, nanos)
    ELSE calculateFull(ja3, ua, ip, cookie, nanos)

\* the attributes of the requests, and the readings of the nanosecond clock
FingerprintModes == {"full", "partial", "ip-only"}
JA3s == {<<>>, <<"771,4865-4866,0-23,29-23,0">>}
UserAgents == {<<>>, <<"curl/8.5.0">>}
ClientIPs == {<<>>, <<"192", "168", "1", "100">>, <<"192", "168", "1", "101">>}
ClockReadings == {"t1", "t2"}
TrackingCookies == {<<>>, <<"abc123">>, generateCookieValue("t1")}

\* the fingerprint of one more request is calculated
Calculate(ja3, ua, ip, cookie, nanos) ==
    /\ Len(api) < MaxRequests
    /\ api' = Append(api, [op |-> "CalculateWithDetails",
                           arg |-> [ja3 |-> ja3, ua |-> ua, ip |-> ip,
                                    cookie |-> cookie],
                           at |-> nanos,
                           out |-> CalculateWithDetails(ja3, ua, ip, cookie, nanos)])
    /\ UNCHANGED <<now, config, shared, http, svc, cas>>

InitFp ==
    /\ InitStores
    /\ config \in {[cf EXCEPT !.FingerprintMode = mode] :
                       cf \in {c \in Configs : /\ c.RedisCluster = "" /\ ~c.DryRun
                                               /\ ~c.ScoringEnabled},
                       mode \in FingerprintModes}

NextFp ==
    \E ja3 \in JA3s, ua \in UserAgents, ip \in ClientIPs,
       cookie \in TrackingCookies, nanos \in ClockReadings :
        Calculate(ja3, ua, ip, cookie, nanos)

SpecFp == InitFp /\ [][NextFp]_vars

\* C17: two requests with identical (mode, ja3, ua, ip, cookie), an absent
\* tracking cookie included, get equal fingerprints under every
\* configuration, so that a ban issued for one is found by the other
C17_Stated_FingerprintDeterministic ==
    \A i, j \in Calls("CalculateWithDetails") :
        api[i].arg = api[j].arg => api[i].out.Fingerprint = api[j].out.Fingerprint

(***************************************************************************)
(* issueDirectBan of request contexts on different workers: between two    *)
(* host calls of one context any other context may run.                    *)
(***************************************************************************)
\* issueDirectBan up to the first host call of setLocalBan: the new entry,
\* and GetSharedData for the current cas of its key
issueDirectBan_GetCas(c, fingerprint, severity) ==
    /\ cas.call[c].pc = "idle"
    /\ LET entry == NewBanEntry(fingerprint, "waf-rule:930120", "930120",
                                severity, GetBanTTL(severity))
       IN  cas' = [cas EXCEPT !.call[c] =
                     [IdleCall EXCEPT !.pc = "Set", !.fingerprint = fingerprint,
                                      !.entry = entry,
                                      !.cas = GetSharedData(shared,
                                                            BanKey(fingerprint)).cas]]
    /\ http' = [http EXCEPT ![c].fingerprint = fingerprint]
    /\ UNCHANGED <<now, config, shared, svc, api>>

\* setLocalBan: SetSharedData with that cas; on a mismatch the retry follows
setLocalBan_Set(c) ==
    /\ cas.call[c].pc = "Set"
    /\ LET w == cas.call[c]
           set == SetSharedData(shared, BanKey(w.fingerprint),
                                BanEntryToJSON(w.entry), w.cas)
       IN  /\ shared' = set.tbl
           /\ cas' = [cas EXCEPT !.call[c].pc = IF set.err = "CasMismatch"
                                                THEN "Retry" ELSE "Dispatch",
                                 !.call[c].err = set.err,
                                 !.call[c].attempts = @ + 1]
    /\ UNCHANGED <<now, config, http, svc, api>>

\* setLocalBan, the retry: GetSharedData for the new cas
setLocalBan_RetryGetCas(c) ==
    /\ cas.call[c].pc = "Retry"
    /\ cas' = [cas EXCEPT !.call[c].pc = "RetrySet",
                          !.call[c].cas =
                              GetSharedData(shared, BanKey(cas.call[c].fingerprint)).cas]
    /\ UNCHANGED <<now, config, shared, http, svc, api>>

\* setLocalBan, the retry: SetSharedData with the new cas, whose outcome
\* setLocalBan returns
setLocalBan_RetrySet(c) ==
    /\ cas.call[c].pc = "RetrySet"
    /\ LET w == cas.call[c]
           set == SetSharedData(shared, BanKey(w.fingerprint),
                                BanEntryToJSON(w.entry), w.cas)
       IN  /\ shared' = set.tbl
           /\ cas' = [cas EXCEPT !.call[c].pc = "Dispatch", !.call[c].err = set.err,
                                 !.call[c].attempts = @ + 1]
    /\ UNCHANGED <<now, config, http, svc, api>>

\* issueDirectBan after setLocalBan returned (its error is only logged): the
\* remote write, if a Redis cluster is configured
issueDirectBan_setRedisBanAsync(c) ==
    /\ cas.call[c].pc = "Dispatch"
    /\ cas' = [cas EXCEPT !.call[c].pc = "done"]
    /\ http' = [http EXCEPT ![c] =
                  IF config.RedisCluster # ""
                  THEN setRedisBanAsync(http[c], cas.call[c].entry) ELSE http[c]]
    /\ UNCHANGED <<now, config, shared, svc, api>>

\* the local store before the calls: for each fingerprint no ban record, or
\* the one an earlier issueDirectBan left
PriorBanTable(prior) ==
    [k \in Keys |->
        IF \E f \in FPs : k = BanKey(f) /\ prior[f]
        THEN setLocalBan([key \in Keys |-> [data |-> EmptyBytes, cas |-> 0]],
                         NewBanEntry(CHOOSE f \in FPs : k = BanKey(f),
                                     "waf-rule:930120", "930120", "high",
                                     GetBanTTL("high"))).tbl[k]
        ELSE [data |-> EmptyBytes, cas |-> 0]]

InitIssue ==
    /\ now = 0
    /\ config \in {cf \in Configs :
                       /\ ~cf.DryRun /\ ~cf.ScoringEnabled /\ ~cf.InjectCookie}
    /\ http = [c \in Ctx |-> NewHttpContext]
    /\ svc = [events |-> <<>>, result |-> Nil, calls |-> 0]
    /\ cas = [prior |-> [f \in FPs |-> 0], call |-> [c \in Ctx |-> IdleCall]]
    /\ api = <<>>
    /\ \E prior \in [FPs -> BOOLEAN] : shared = PriorBanTable(prior)

NextIssue ==
    \/ \E c \in Ctx, fingerprint \in FPs, severity \in {"high", "medium"} :
          issueDirectBan_GetCas(c, fingerprint, severity)
    \/ \E c \in Ctx : setLocalBan_Set(c)
    \/ \E c \in Ctx : setLocalBan_RetryGetCas(c)
    \/ \E c \in Ctx : setLocalBan_RetrySet(c)
    \/ \E c \in Ctx : issueDirectBan_setRedisBanAsync(c)

SpecIssue == InitIssue /\ [][NextIssue]_vars

\* request c has dispatched a remote ban write
DispatchedSetBan(c) ==
    \E i \in 1..Len(http[c].calls) : http[c].calls[i].cmd = "SETEX"

\* C19: a remote set_ban is dispatched for a request only when a Redis
\* cluster is configured and the ban record of the request was persisted in
\* the local store (setLocalBan returned no error)
C19_Stated_RemoteWriteOnlyAfterLocalPersist ==
    \A c \in Ctx :
        DispatchedSetBan(c) =>
            /\ config.RedisCluster # ""
            /\ cas.call[c].err = "ok"

(***************************************************************************)
(* The plugin start: the configuration parsed from the plugin              *)
(* configuration data, and the request state machine under it.             *)
(***************************************************************************)
\* DefaultConfig, with the ban TTL, the score threshold and the decay interval
\* scaled to the clock
DefaultConfig ==
    [RedisCluster |-> "redis_cluster", BanTTLDefault |-> TTLDefault,
     BanTTLBySeverity |-> <<>>, ScoringEnabled |-> FALSE,
     ScoreThreshold |-> ScoreThreshold, ScoreDecaySeconds |-> ScoreDecaySeconds,
     ScoreRules |-> <<>>,
     ScoreBySeverity |-> [critical |-> 50, high |-> 40, medium |-> 20, low |-> 10],
     FingerprintMode |-> "full", CookieName |-> "__bm", InjectCookie |-> FALSE,
     BanResponseCode |-> 403, BanResponseBody |-> "Forbidden", DryRun |-> FALSE]

\* the field of PluginConfig a JSON key is decoded into
JSONField ==
    [redis_cluster |-> "RedisCluster", ban_ttl_default |-> "BanTTLDefault",
     ban_ttl_by_severity |-> "BanTTLBySeverity", scoring_enabled |-> "ScoringEnabled",
     score_threshold |-> "ScoreThreshold", score_decay_seconds |-> "ScoreDecaySeconds",
     score_rules |-> "ScoreRules", score_by_severity |-> "ScoreBySeverity",
     fingerprint_mode |-> "FingerprintMode", cookie_name |-> "CookieName",
     inject_cookie |-> "InjectCookie", ban_response_code |-> "BanResponseCode",
     ban_response_body |-> "BanResponseBody", dry_run |-> "DryRun"]

\* PluginConfig.validate: values out of range are replaced by the defaults
validate(c) ==
    [c EXCEPT
       !.BanTTLDefault = IF @ <= 0 THEN DefaultConfig.BanTTLDefault ELSE @,
       !.ScoreThreshold = IF @ <= 0 THEN DefaultConfig.ScoreThreshold ELSE @,
       !.ScoreDecaySeconds = IF @ <= 0 THEN DefaultConfig.ScoreDecaySeconds ELSE @,
       !.FingerprintMode = IF @ \in FingerprintModes THEN @ ELSE "full",
       !.CookieName = IF @ = "" THEN "__bm" ELSE @,
       !.BanResponseCode = IF @ <= 0 THEN 403 ELSE @,
       !.BanResponseBody = IF @ = "" THEN "Forbidden" ELSE @]

\* ParseConfig: the defaults for no data; else json.Unmarshal into the
\* defaults, which sets the fields whose keys the data has, and validate
ParseConfig(data) ==
    IF data.kind = "empty" THEN DefaultConfig
    ELSE validate([f \in DOMAIN DefaultConfig |->
                     IF \E k \in DOMAIN data.obj : JSONField[k] = f
                     THEN data.obj[CHOOSE k \in DOMAIN data.obj : JSONField[k] = f]
                     ELSE DefaultConfig[f]])

\* json.Unmarshal of the data into the defaults, before validate
Unmarshal(data) ==
    [f \in DOMAIN DefaultConfig |->
        IF \E k \in DOMAIN data.obj : JSONField[k] = f
        THEN data.obj[CHOOSE k \in DOMAIN data.obj : JSONField[k] = f]
        ELSE DefaultConfig[f]]

\* PluginConfig.Validate: the messages of the fields out of their bounds
Validate(c) ==
    (IF c.BanTTLDefault < 1 \/ c.BanTTLDefault > 86400
     THEN {"ban_ttl_default must be between 1-86400 seconds"} ELSE {})
    \cup {"ban_ttl_by_severity[" \o sev \o "] must be between 1-86400 seconds" :
            sev \in {v \in DOMAIN c.BanTTLBySeverity :
                        c.BanTTLBySeverity[v] < 1 \/ c.BanTTLBySeverity[v] > 86400}}
    \cup (IF c.ScoringEnabled /\ (c.ScoreThreshold < 1 \/ c.ScoreThreshold > 10000)
          THEN {"score_threshold must be between 1-10000"} ELSE {})
    \cup (IF c.ScoreDecaySeconds < 1 \/ c.ScoreDecaySeconds > 3600
          THEN {"score_decay_seconds must be between 1-3600 seconds"} ELSE {})
    \cup {"score_rules[" \o r \o "] must be between 1-1000" :
            r \in {v \in DOMAIN c.ScoreRules :
                      c.ScoreRules[v] < 1 \/ c.ScoreRules[v] > 1000}}
    \cup {"score_by_severity[" \o sev \o "] must be between 1-1000" :
            sev \in {v \in DOMAIN c.ScoreBySeverity :
                        c.ScoreBySeverity[v] < 1 \/ c.ScoreBySeverity[v] > 1000}}
    \cup (IF c.FingerprintMode \notin FingerprintModes
          THEN {"fingerprint_mode must be one of: full, partial, ip-only"} ELSE {})
    \cup (IF c.BanResponseCode < 400 \/ c.BanResponseCode > 599
          THEN {"ban_response_code must be between 400-599"} ELSE {})
    \cup (IF c.InjectCookie /\ c.CookieName = ""
          THEN {"cookie_name is required when inject_cookie is true"} ELSE {})

\* pluginContext.OnPluginStart: [status, config]; the start fails only when
\* the data cannot be unmarshalled
pluginContext_OnPluginStart(data) ==
    IF data.kind \notin {"empty", "json"}
    THEN [status |-> "Failed", config |-> Nil]
    ELSE [status |-> "OK", config |-> ParseConfig(data)]

\* the plugin configuration data checked: none, one without redis_cluster,
\* one with an empty and one with a set redis_cluster
PluginConfigurations ==
    {EmptyBytes,
     JSONBytes([ban_ttl_default |-> TTLDefault]),
     JSONBytes([redis_cluster |-> "", ban_ttl_default |-> TTLDefault]),
     JSONBytes([redis_cluster |-> "redis_cluster", ban_ttl_default |-> TTLDefault])}

\* OnPluginStart: the configuration of the plugin is what ParseConfig makes
\* of the plugin configuration data
InitPlugin ==
    /\ now = 0
    /\ shared = [k \in Keys |-> [data |-> EmptyBytes, cas |-> 0]]
    /\ http = [c \in Ctx |-> NewHttpContext]
    /\ svc = [events |-> <<>>, result |-> Nil, calls |-> 0]
    /\ cas = [prior |-> [f \in FPs |-> 0], call |-> [c \in Ctx |-> IdleCall]]
    /\ \E data \in PluginConfigurations :
          /\ config = ParseConfig(data)
          /\ api = <<[op |-> "ParseConfig", arg |-> data, out |-> ParseConfig(data)]>>

SpecPlugin == InitPlugin /\ [][Next]_vars

\* redis_cluster is omitted from, or empty in, the plugin configuration data
NoRedisCluster(data) ==
    \/ data.kind = "empty"
    \/ "redis_cluster" \notin DOMAIN data.obj
    \/ data.obj.redis_cluster = ""

\* C20: when redis_cluster is omitted from or empty in the plugin
\* configuration, no remote ban check or remote ban write is ever dispatched
\* and OnHttpRequestHeaders never returns pause
C20_Stated_NoRedisClusterDisablesRemote ==
    NoRedisCluster(api[1].arg) =>
        \A c \in Ctx : http[c].calls = <<>> /\ http[c].action # "pause"

(***************************************************************************)
(* The plugin start alone, over plugin configuration data within and       *)
(* beyond the documented bounds.                                           *)
(***************************************************************************)
StartConfigurations ==
    {EmptyBytes, GarbageBytes}
    \cup {JSONBytes([ban_ttl_default |-> ttl, score_decay_seconds |-> decay,
                     ban_response_code |-> code, scoring_enabled |-> scoring,
                     score_threshold |-> threshold]) :
            ttl \in {0, 1, 86400, 86401}, decay \in {0, 60, 3601},
            code \in {200, 403, 600}, scoring \in BOOLEAN,
            threshold \in {0, 100, 10001}}

\* the proxy starts the plugin with the data
OnPluginStart(data) ==
    /\ api = <<>>
    /\ api' = <<[op |-> "OnPluginStart", arg |-> data,
                 out |-> pluginContext_OnPluginStart(data)]>>
    /\ config' = IF pluginContext_OnPluginStart(data).status = "OK"
                 THEN pluginContext_OnPluginStart(data).config ELSE config
    /\ UNCHANGED <<now, shared, http, svc, cas>>

InitStart ==
    /\ InitStores
    /\ config = DefaultConfig

NextStart == \E data \in StartConfigurations : OnPluginStart(data)

SpecStart == InitStart /\ [][NextStart]_vars

\* C21: the plugin start fails whenever a configured value violates a hard
\* bound (ban_ttl_default = 86401 fails, 86400 with the other values in their
\* bounds starts), and succeeds when none does
C21_Stated_StartFailsOnHardBound ==
    \A i \in Calls("OnPluginStart") :
        api[i].arg.kind = "json" =>
            (api[i].out.status = "Failed" <=> Validate(Unmarshal(api[i].arg)) # {})

(***************************************************************************)
(* The request state machine under configurations that set a ban TTL per   *)
(* severity.                                                               *)
(***************************************************************************)
\* plugin configuration data with a ban TTL for severity high: validate
\* initialises a missing map and leaves the values of a given one alone
SeverityTTLConfigurations ==
    {JSONBytes([redis_cluster |-> rc, ban_ttl_default |-> TTLDefault,
                ban_ttl_by_severity |-> [high |-> ttl]]) :
        rc \in {"", "redis_cluster"}, ttl \in {0, TTLHigh}}

\* OnPluginStart under the data of SeverityTTLConfigurations
InitSeverityTTL ==
    /\ InitStores
    /\ \E data \in SeverityTTLConfigurations :
          /\ pluginContext_OnPluginStart(data).status = "OK"
          /\ config = pluginContext_OnPluginStart(data).config

SpecSeverityTTL == InitSeverityTTL /\ [][Next]_vars

\* C22: every ban record in the local store has expires_at = created_at + ttl
\* and ttl >= 1, whatever configuration the plugin started with
C22_Stated_BanRecordInvariants ==
    \A fp \in FPs :
        HoldsBanRecord(fp) =>
            LET entry == BanEntryFromJSON(shared[BanKey(fp)].data).entry
            IN  entry.expires_at = entry.created_at + entry.ttl /\ entry.ttl >= 1

(***************************************************************************)
(* Repeated calls of BanService.IssueBan.                                  *)
(***************************************************************************)
\* what one call of IssueBan on a store without records leaves under
\* ban:<fingerprint>
SingleIssue(fingerprint, metadata) ==
    BanService_IssueBan([k \in Keys |-> [data |-> EmptyBytes, cas |-> 0]],
                        fingerprint, metadata).tbl[BanKey(fingerprint)].data

HoldsUnexpiredBan(fingerprint) ==
    /\ fingerprint # ""
    /\ HoldsBanRecord(fingerprint)
    /\ now <= BanEntryFromJSON(shared[BanKey(fingerprint)].data).entry.expires_at

\* C24: CheckBan(fingerprint) emits exactly one enforced event with source
\* local and returns banned with the stored record when the local store holds
\* an unexpired ban of the fingerprint; otherwise it emits no event and
\* returns not banned
C24_CheckBanEventAndResult ==
    [][\A fingerprint \in FPs \cup {""} :
          CheckBan(fingerprint) =>
              IF HoldsUnexpiredBan(fingerprint)
              THEN LET entry == BanEntryFromJSON(shared[BanKey(fingerprint)].data).entry
                   IN  /\ Len(svc'.events) = Len(svc.events) + 1
                       /\ SubSeq(svc'.events, 1, Len(svc.events)) = svc.events
                       /\ svc'.events[Len(svc'.events)].Type = "enforced"
                       /\ svc'.events[Len(svc'.events)].Source = "local"
                       /\ svc'.events[Len(svc'.events)].Fingerprint = fingerprint
                       /\ svc'.result = [IsBanned |-> TRUE, Entry |-> entry]
              ELSE /\ svc'.events = svc.events
                   /\ svc'.result = [IsBanned |-> FALSE, Entry |-> Nil]]_vars

\* a check has found the ban of a fingerprint and has emitted its event
C24_Witness ==
    /\ svc.result # Nil
    /\ "IsBanned" \in DOMAIN svc.result
    /\ svc.result.IsBanned
    /\ svc.events # <<>>
    /\ svc.events[Len(svc.events)].Type = "enforced"
    /\ svc.events[Len(svc.events)].Source = "local"
    /\ svc.events[Len(svc.events)].Fingerprint = svc.result.Entry.fingerprint

(***************************************************************************)
(* Events of the request state machine.                                    *)
(***************************************************************************)
\* C25: when the remote store has confirmed a ban for a paused request, an
\* enforced event with source local has been emitted for the request's
\* fingerprint, and the record is in the local store
C25_Stated_EnforcedLocalAfterRemoteSync ==
    \A c \in Ctx :
        (RemoteConfirmed(http[c]) /\ http[c].isBanned) =>
            \E i \in 1..Len(svc.events) :
                /\ svc.events[i].Type = "enforced"
                /\ svc.events[i].Source = "local"
                /\ svc.events[i].Fingerprint = http[c].fingerprint

(***************************************************************************)
(* BanService.SyncBanFromRedis, called between the other calls of the      *)
(* service.                                                                *)
(***************************************************************************)
\* variant of BanService.SyncBanFromRedis: the record is stored with a
\* lifetime starting at the sync
BanService_SyncBanFromRedis_restarted(tbl, entry) ==
    IF entry = Nil THEN [err |-> "ok", events |-> <<>>, tbl |-> tbl]
    ELSE LET set == LocalBanStore_SetBan(tbl, [entry EXCEPT !.created_at = now,
                                                           !.expires_at = now + entry.ttl])
         IN  [err |-> set.err, events |-> <<>>, tbl |-> set.tbl]

\* BanService.SyncBanFromRedis: [err, events, tbl]
BanService_SyncBanFromRedis(tbl, entry) ==
    IF entry = Nil THEN [err |-> "ok", events |-> <<>>, tbl |-> tbl]
    ELSE LET set == LocalBanStore_SetBan(tbl, entry)
         IN  [err |-> set.err, events |-> <<>>, tbl |-> set.tbl]

\* a call of BanService.SyncBanFromRedis; api keeps the latest one
SyncBanFromRedis(entry) ==
    /\ svc.calls < MaxCalls
    /\ LET r == BanService_SyncBanFromRedis(shared, entry)
       IN  /\ svc' = [events |-> svc.events \o r.events,
                      result |-> [Err |-> r.err], calls |-> svc.calls + 1]
           /\ shared' = r.tbl
           /\ api' = <<[op |-> "SyncBanFromRedis", arg |-> entry,
                        at |-> now, out |-> r.err]>>
    /\ UNCHANGED <<now, config, http, cas>>

InitSync ==
    /\ InitStores
    /\ config \in {cf \in Configs : /\ cf.RedisCluster # "" /\ ~cf.DryRun
                                    /\ ~cf.ScoringEnabled /\ ~cf.InjectCookie}

NextSync ==
    \/ \E fingerprint \in FPs : CheckBan(fingerprint)
    \/ \E fingerprint \in FPs, metadata \in SvcDecisions : IssueBan(fingerprint, metadata)
    \/ Tick
    \/ \E entry \in UNION {FleetEntries(f) : f \in FPs} \cup {Nil} :
          SyncBanFromRedis(entry)

SpecSync == InitSync /\ [][NextSync]_vars

\* C26: SyncBanFromRedis(entry) stores the received record unchanged under
\* the key of its fingerprint, touches no other key, emits no event and
\* returns no error; with a nil entry the store is not written at all
C26_SyncWritesRecordUnchanged ==
    [][\A entry \in UNION {FleetEntries(f) : f \in FPs} \cup {Nil} :
          SyncBanFromRedis(entry) =>
              /\ svc'.events = svc.events
              /\ svc'.result = [Err |-> "ok"]
              /\ IF entry = Nil THEN shared' = shared
                 ELSE /\ BanEntryFromJSON(shared'[BanKey(entry.fingerprint)].data)
                           = [err |-> FALSE, entry |-> entry]
                      /\ \A k \in Keys \ {BanKey(entry.fingerprint)} :
                             shared'[k] = shared[k]]_vars

\* the latest sync stored a record created before the sync, over a record
\* that was issued locally
C26_Witness ==
    \E i \in Calls("SyncBanFromRedis") :
        /\ api[i].arg # Nil /\ api[i].arg.created_at < api[i].at
        /\ api[i].out = "ok"
        /\ \E e \in 1..Len(svc.events) :
              /\ svc.events[e].Type = "issued"
              /\ svc.events[e].Fingerprint = api[i].arg.fingerprint
              /\ svc.events[e].Timestamp < api[i].at
        /\ BanEntryFromJSON(shared[BanKey(api[i].arg.fingerprint)].data).entry = api[i].arg

(***************************************************************************)
(* store_local.go: WebdisClient, the remote store reached with HTTP calls. *)
(* A method's run is the sequence of what it does to its surroundings: the *)
(* HTTP calls it hands to the proxy and the invocations of its callback.   *)
(***************************************************************************)
\* an invocation of the callback a method was given, with its arguments
Callback(args) == [op |-> "callback", arg |-> args]

\* proxywasm.DispatchHttpCall by the client; ok is the proxy's answer
Dispatch(cmd, key, ok) == [op |-> "DispatchHttpCall", arg |-> [cmd |-> cmd, key |-> key], out |-> ok]

\* WebdisClient.IsConfigured
WebdisClient_IsConfigured == config.RedisCluster # ""

\* WebdisClient.DeleteBanAsync: fire and forget
WebdisClient_DeleteBanAsync(fingerprint) ==
    IF ~WebdisClient_IsConfigured THEN <<>>
    ELSE <<Dispatch("DEL", BanKey(fingerprint), TRUE)>>

\* WebdisClient.parseRedisBanResponse: [found, entry, run]
WebdisClient_parseRedisBanResponse(body, fingerprint) ==
    LET dec == BanEntryFromJSON(IF body.kind = "object" /\ body.value.type = "string"
                                THEN body.value.s ELSE GarbageBytes)
    IN  IF body.kind \in {"empty", "notjson"} THEN [found |-> FALSE, entry |-> Nil, run |-> <<>>]
        ELSE IF body.key # "GET" THEN [found |-> FALSE, entry |-> Nil, run |-> <<>>]
        ELSE IF body.value.type = "null" THEN [found |-> FALSE, entry |-> Nil, run |-> <<>>]
        ELSE IF body.value.type # "string" THEN [found |-> FALSE, entry |-> Nil, run |-> <<>>]
        ELSE IF dec.err THEN [found |-> FALSE, entry |-> Nil, run |-> <<>>]
        ELSE IF IsExpired(dec.entry)
             THEN [found |-> FALSE, entry |-> Nil,
                   run |-> WebdisClient_DeleteBanAsync(fingerprint)]
        ELSE [found |-> TRUE, entry |-> dec.entry, run |-> <<>>]

\* WebdisClient.CheckBanAsync up to its return; accepted is the proxy's answer
\* to the dispatch
WebdisClient_CheckBanAsync(fingerprint, accepted) ==
    IF ~WebdisClient_IsConfigured THEN <<Callback(<<FALSE, Nil>>)>>
    ELSE IF ~accepted
         THEN <<Dispatch("GET", BanKey(fingerprint), FALSE), Callback(<<FALSE, Nil>>)>>
    ELSE <<Dispatch("GET", BanKey(fingerprint), TRUE)>>

\* WebdisClient.handleCheckBanResponse; reply is [readable, status, body]
WebdisClient_handleCheckBanResponse(fingerprint, reply) ==
    LET p == WebdisClient_parseRedisBanResponse(reply.body, fingerprint)
    IN  IF ~reply.readable THEN <<Callback(<<FALSE, Nil>>)>>
        ELSE IF reply.status # "200" THEN <<Callback(<<FALSE, Nil>>)>>
        ELSE p.run \o <<Callback(<<p.found, p.entry>>)>>

\* WebdisClient.SetBanAsync up to its return; the entry always serializes
WebdisClient_SetBanAsync(entry, accepted) ==
    IF ~WebdisClient_IsConfigured THEN <<Callback(<<TRUE>>)>>
    ELSE IF ~accepted
         THEN <<Dispatch("SETEX", BanKey(entry.fingerprint), FALSE), Callback(<<FALSE>>)>>
    ELSE <<Dispatch("SETEX", BanKey(entry.fingerprint), TRUE)>>

\* the response closure of WebdisClient.SetBanAsync
WebdisClient_SetBanAsync_response(reply) == <<Callback(<<reply.status = "200">>)>>

\* WebdisClient.setScoreTTL: fire and forget
WebdisClient_setScoreTTL(fingerprint, ttl) ==
    <<Dispatch("EXPIRE", ScoreKey(fingerprint), TRUE)>>

\* WebdisClient.IncrScoreAsync up to its return
WebdisClient_IncrScoreAsync(fingerprint, increment, ttl, accepted) ==
    IF ~WebdisClient_IsConfigured THEN <<Callback(<<0, TRUE>>)>>
    ELSE IF ~accepted
         THEN <<Dispatch("INCRBY", ScoreKey(fingerprint), FALSE), Callback(<<0, FALSE>>)>>
    ELSE <<Dispatch("INCRBY", ScoreKey(fingerprint), TRUE)>>

\* variant of WebdisClient.handleIncrScoreResponse: a value that is no number
\* is reported and the code goes on to the TTL and the result
WebdisClient_handleIncrScoreResponse_noReturn(fingerprint, reply, ttl) ==
    IF ~reply.readable THEN <<Callback(<<0, FALSE>>)>>
    ELSE IF reply.status # "200" THEN <<Callback(<<0, FALSE>>)>>
    ELSE IF reply.body.kind \in {"empty", "notjson"} THEN <<Callback(<<0, FALSE>>)>>
    ELSE IF reply.body.key # "INCRBY" THEN <<Callback(<<0, FALSE>>)>>
    ELSE IF reply.body.value.type # "number"
         THEN <<Callback(<<0, FALSE>>)>> \o WebdisClient_setScoreTTL(fingerprint, ttl)
                  \o <<Callback(<<0, TRUE>>)>>
    ELSE WebdisClient_setScoreTTL(fingerprint, ttl)
             \o <<Callback(<<reply.body.value.n, TRUE>>)>>

\* WebdisClient.handleIncrScoreResponse
WebdisClient_handleIncrScoreResponse(fingerprint, reply, ttl) ==
    IF ~reply.readable THEN <<Callback(<<0, FALSE>>)>>
    ELSE IF reply.status # "200" THEN <<Callback(<<0, FALSE>>)>>
    ELSE IF reply.body.kind \in {"empty", "notjson"} THEN <<Callback(<<0, FALSE>>)>>
    ELSE IF reply.body.key # "INCRBY" THEN <<Callback(<<0, FALSE>>)>>
    ELSE IF reply.body.value.type # "number" THEN <<Callback(<<0, FALSE>>)>>
    ELSE WebdisClient_setScoreTTL(fingerprint, ttl)
             \o <<Callback(<<reply.body.value.n, TRUE>>)>>

\* WebdisClient.GetScoreAsync up to its return
WebdisClient_GetScoreAsync(fingerprint, accepted) ==
    IF ~WebdisClient_IsConfigured THEN <<Callback(<<0, FALSE>>)>>
    ELSE IF ~accepted
         THEN <<Dispatch("GET", ScoreKey(fingerprint), FALSE), Callback(<<0, FALSE>>)>>
    ELSE <<Dispatch("GET", ScoreKey(fingerprint), TRUE)>>

\* c - '0' for the characters '0' to '9'
DigitValue ==
    [c \in {"0", "1", "2", "3", "4", "5", "6", "7", "8", "9"} |->
        CASE c = "0" -> 0 [] c = "1" -> 1 [] c = "2" -> 2 [] c = "3" -> 3 [] c = "4" -> 4
          [] c = "5" -> 5 [] c = "6" -> 6 [] c = "7" -> 7 [] c = "8" -> 8 [] c = "9" -> 9]

\* the loop of handleGetScoreResponse over the characters of the score
\* string: the digits are accumulated, any other character is skipped
RECURSIVE parseScoreString(_, _)
parseScoreString(chars, score) ==
    IF chars = <<>> THEN score
    ELSE parseScoreString(Tail(chars),
                          IF Head(chars) \in DOMAIN DigitValue
                          THEN score * 10 + DigitValue[Head(chars)] ELSE score)

\* WebdisClient.handleGetScoreResponse
WebdisClient_handleGetScoreResponse(reply) ==
    IF ~reply.readable THEN <<Callback(<<0, FALSE>>)>>
    ELSE IF reply.status # "200" THEN <<Callback(<<0, FALSE>>)>>
    ELSE IF reply.body.kind \in {"empty", "notjson"} THEN <<Callback(<<0, FALSE>>)>>
    ELSE IF reply.body.key # "GET" \/ reply.body.value.type = "null"
         THEN <<Callback(<<0, FALSE>>)>>
    ELSE IF reply.body.value.type = "number" THEN <<Callback(<<reply.body.value.n, TRUE>>)>>
    ELSE IF reply.body.value.type # "string" THEN <<Callback(<<0, FALSE>>)>>
    ELSE <<Callback(<<parseScoreString(reply.body.value.s.chars, 0), TRUE>>)>>

(***************************************************************************)
(* The remote store called by a client, one call at a time: api holds the  *)
(* run of the latest call, from the call to the return of its response     *)
(* handler.                                                                *)
(***************************************************************************)
\* the methods of the client that take a callback
AsyncMethods == {"CheckBanAsync", "SetBanAsync", "IncrScoreAsync", "GetScoreAsync"}

\* the HTTP call of the latest method call is in flight
Pending == Len(api) = 2 /\ api[2].op = "DispatchHttpCall"

\* the ban records the remote store can hold by now: written by a proxy of
\* this configuration at some earlier second, for a severity with a TTL of
\* its own or with the default TTL
StoredRemotely ==
    {[NewBanEntry(f, "waf-rule:930120", "930120", severity, GetBanTTL(severity))
        EXCEPT !.created_at = t, !.expires_at = t + GetBanTTL(severity)] :
        f \in FPs, severity \in {"high", "low"}, t \in 0..now}

\* the values a reply can carry under its key: null, a number, a boolean, a
\* string of digits, a string with other characters and, for a ban check, the
\* JSON text of a ban record
WebdisValues(method) ==
    {[type |-> "null"], [type |-> "number", n |-> 70], [type |-> "bool"],
     [type |-> "string", s |-> [kind |-> "text", chars |-> <<"7", "0">>]],
     [type |-> "string", s |-> [kind |-> "text", chars |-> <<"7", "x", "1">>]]}
    \cup (IF method = "CheckBanAsync"
          THEN {[type |-> "string", s |-> BanEntryToJSON(e)] : e \in StoredRemotely}
          ELSE {})

\* the replies the proxy can deliver for the HTTP call of a method: a body
\* that cannot be read, no status (timeout), an error status, and status 200
\* with each body
WebdisReplies(method) ==
    {[readable |-> FALSE, status |-> "200", body |-> EmptyBody],
     [readable |-> TRUE, status |-> "", body |-> EmptyBody],
     [readable |-> TRUE, status |-> "500", body |-> EmptyBody],
     [readable |-> TRUE, status |-> "200", body |-> EmptyBody],
     [readable |-> TRUE, status |-> "200", body |-> [kind |-> "notjson"]]}
    \cup {[readable |-> TRUE, status |-> "200",
           body |-> [kind |-> "object", key |-> k, value |-> v]] :
             k \in {"GET", "INCRBY"}, v \in WebdisValues(method)}

\* a call of WebdisClient.CheckBanAsync
CheckBanAsync(fingerprint, accepted) ==
    /\ ~Pending
    /\ api' = <<[op |-> "CheckBanAsync", arg |-> [fingerprint |-> fingerprint]]>>
                  \o WebdisClient_CheckBanAsync(fingerprint, accepted)
    /\ UNCHANGED <<now, config, shared, http, svc, cas>>

\* a call of WebdisClient.SetBanAsync
SetBanAsync(entry, accepted) ==
    /\ ~Pending
    /\ api' = <<[op |-> "SetBanAsync", arg |-> [entry |-> entry]]>>
                  \o WebdisClient_SetBanAsync(entry, accepted)
    /\ UNCHANGED <<now, config, shared, http, svc, cas>>

\* a call of WebdisClient.IncrScoreAsync
IncrScoreAsync(fingerprint, increment, ttl, accepted) ==
    /\ ~Pending
    /\ api' = <<[op |-> "IncrScoreAsync",
                 arg |-> [fingerprint |-> fingerprint, increment |-> increment, ttl |-> ttl]]>>
                  \o WebdisClient_IncrScoreAsync(fingerprint, increment, ttl, accepted)
    /\ UNCHANGED <<now, config, shared, http, svc, cas>>

\* a call of WebdisClient.GetScoreAsync
GetScoreAsync(fingerprint, accepted) ==
    /\ ~Pending
    /\ api' = <<[op |-> "GetScoreAsync", arg |-> [fingerprint |-> fingerprint]]>>
                  \o WebdisClient_GetScoreAsync(fingerprint, accepted)
    /\ UNCHANGED <<now, config, shared, http, svc, cas>>

\* the proxy delivers the reply of the HTTP call in flight to the closure
\* given to DispatchHttpCall
OnHttpCallResponse(reply) ==
    /\ Pending
    /\ api' = api \o <<[op |-> "OnHttpCallResponse", arg |-> reply]>>
                  \o CASE api[1].op = "CheckBanAsync" ->
                            WebdisClient_handleCheckBanResponse(api[1].arg.fingerprint, reply)
                       [] api[1].op = "SetBanAsync" ->
                            WebdisClient_SetBanAsync_response(reply)
                       [] api[1].op = "IncrScoreAsync" ->
                            WebdisClient_handleIncrScoreResponse(api[1].arg.fingerprint,
                                                                 reply, api[1].arg.ttl)
                       [] api[1].op = "GetScoreAsync" ->
                            WebdisClient_handleGetScoreResponse(reply)
    /\ UNCHANGED <<now, config, shared, http, svc, cas>>

InitWebdis ==
    /\ InitStores
    /\ config \in {cf \in Configs : ~cf.ScoringEnabled /\ ~cf.DryRun /\ ~cf.InjectCookie}

NextWebdis ==
    \/ \E fingerprint \in FPs, accepted \in BOOLEAN : CheckBanAsync(fingerprint, accepted)
    \/ \E fingerprint \in FPs, accepted \in BOOLEAN :
          SetBanAsync(NewBanEntry(fingerprint, "waf-rule:930120", "930120", "high",
                                  GetBanTTL("high")), accepted)
    \/ \E fingerprint \in FPs, increment \in Increments, accepted \in BOOLEAN :
          IncrScoreAsync(fingerprint, increment, config.ScoreDecaySeconds, accepted)
    \/ \E fingerprint \in FPs, accepted \in BOOLEAN : GetScoreAsync(fingerprint, accepted)
    \/ Pending /\ \E reply \in WebdisReplies(api[1].op) : OnHttpCallResponse(reply)
    \/ Tick

SpecWebdis == InitWebdis /\ [][NextWebdis]_vars

\* the invocations of the callback in the run of the latest call
CallbackInvocations == Calls("callback")

\* C27: the callback given to CheckBanAsync, SetBanAsync, IncrScoreAsync or
\* GetScoreAsync is invoked exactly once on every path: at once when the
\* remote store is not configured or the proxy refuses the dispatch, and
\* otherwise when the reply is delivered, whatever its status and body; it is
\* not invoked while the HTTP call is in flight
C27_CallbackExactlyOnce ==
    (api # <<>> /\ api[1].op \in AsyncMethods) =>
        Cardinality(CallbackInvocations) = IF Pending THEN 0 ELSE 1

\* each kind of path was taken: the reply of a ban check carried an expired
\* record, so that the handler dispatched a DEL before its callback
C27_Witness ==
    /\ api # <<>> /\ api[1].op = "CheckBanAsync"
    /\ Calls("OnHttpCallResponse") # {}
    /\ \E i \in Calls("DispatchHttpCall") : api[i].arg.cmd = "DEL"
    /\ api[Len(api)] = Callback(<<FALSE, Nil>>)

(***************************************************************************)
(* The request state machine with and without cookie injection.           *)
(***************************************************************************)
InitInject ==
    /\ InitStores
    /\ config \in {cf \in Configs : ~cf.DryRun /\ ~cf.ScoringEnabled}

SpecInject == InitInject /\ [][Next]_vars

\* the Set-Cookie header of a tracking cookie
SetCookieHeader(value) ==
    <<config.CookieName, "=", value, "; Path=/; HttpOnly; SameSite=Strict">>

SetBan_GetCas(c, entry) ==
    /\ cas.call[c].pc = "idle"
    /\ cas' = [cas EXCEPT !.call[c] =
                  [IdleCall EXCEPT !.pc = "BanSet", !.fingerprint = entry.fingerprint,
                                   !.entry = entry,
                                   !.cas = GetSharedData(shared,
                                                         BanKey(entry.fingerprint)).cas]]
    /\ UNCHANGED <<now, config, shared, http, svc, api>>

\* SetBan: SetSharedData with that cas; on a mismatch the retry follows, any
\* other outcome is returned
SetBan_Set(c) ==
    /\ cas.call[c].pc = "BanSet"
    /\ LET w == cas.call[c]
           set == SetSharedData(shared, BanKey(w.fingerprint),
                                BanEntryToJSON(w.entry), w.cas)
       IN  /\ shared' = set.tbl
           /\ cas' = [cas EXCEPT !.call[c].pc = IF set.err = "CasMismatch"
                                                THEN "BanRetry" ELSE "done",
                                 !.call[c].err = set.err,
                                 !.call[c].attempts = @ + 1]
    /\ UNCHANGED <<now, config, http, svc, api>>

\* SetBan, the retry: GetSharedData for the new cas
SetBan_RetryGetCas(c) ==
    /\ cas.call[c].pc = "BanRetry"
    /\ cas' = [cas EXCEPT !.call[c].pc = "BanRetrySet",
                          !.call[c].cas =
                              GetSharedData(shared, BanKey(cas.call[c].fingerprint)).cas]
    /\ UNCHANGED <<now, config, shared, http, svc, api>>

\* variant of the retry of SetBan: a second mismatch is retried again
SetBan_RetrySet_again(c) ==
    /\ cas.call[c].pc = "BanRetrySet"
    /\ LET w == cas.call[c]
           set == SetSharedData(shared, BanKey(w.fingerprint),
                                BanEntryToJSON(w.entry), w.cas)
       IN  /\ shared' = set.tbl
           /\ cas' = [cas EXCEPT !.call[c].pc = IF set.err = "CasMismatch"
                                                THEN "BanRetry" ELSE "done",
                                 !.call[c].err = set.err,
                                 !.call[c].attempts = @ + 1]
    /\ UNCHANGED <<now, config, http, svc, api>>

\* SetBan, the retry: SetSharedData with the new cas, whose outcome SetBan
\* returns
SetBan_RetrySet(c) ==
    /\ cas.call[c].pc = "BanRetrySet"
    /\ LET w == cas.call[c]
           set == SetSharedData(shared, BanKey(w.fingerprint),
                                BanEntryToJSON(w.entry), w.cas)
       IN  /\ shared' = set.tbl
           /\ cas' = [cas EXCEPT !.call[c].pc = "done", !.call[c].err = set.err,
                                 !.call[c].attempts = @ + 1]
    /\ UNCHANGED <<now, config, http, svc, api>>

\* the local store before the calls: empty, or a score record and a ban
\* record under every fingerprint
InitSet ==
    /\ now = 0
    /\ config \in {cf \in Configs :
                       /\ cf.RedisCluster = "" /\ ~cf.DryRun
                       /\ cf.ScoringEnabled /\ ~cf.InjectCookie}
    /\ http = [c \in Ctx |-> NewHttpContext]
    /\ svc = [events |-> <<>>, result |-> Nil, calls |-> 0]
    /\ api = <<>>
    /\ \E seeded \in BOOLEAN :
          /\ cas = [prior |-> [f \in FPs |-> IF seeded THEN 20 ELSE 0],
                    call |-> [c \in Ctx |-> IdleCall]]
          /\ shared = [k \in Keys |->
                          IF \E f \in FPs : k = BanKey(f)
                          THEN PriorBanTable([f \in FPs |-> seeded])[k]
                          ELSE PriorTable([f \in FPs |-> IF seeded THEN 20 ELSE 0])[k]]

NextSet ==
    \/ NextCas
    \/ \E c \in Ctx, fingerprint \in FPs, severity \in {"high", "medium"} :
          SetBan_GetCas(c, NewBanEntry(fingerprint, "waf-rule:930120", "930120",
                                       severity, GetBanTTL(severity)))
    \/ \E c \in Ctx : SetBan_Set(c)
    \/ \E c \in Ctx : SetBan_RetryGetCas(c)
    \/ \E c \in Ctx : SetBan_RetrySet(c)

SpecSet == InitSet /\ [][NextSet]_vars

\* the key a set call writes
SetKey(w) ==
    IF w.pc \in {"BanSet", "BanRetry", "BanRetrySet"} THEN BanKey(w.fingerprint)
    ELSE ScoreKey(w.fingerprint)

\* the bytes a set call writes
SetData(w) ==
    IF w.pc \in {"BanSet", "BanRetry", "BanRetrySet"} THEN BanEntryToJSON(w.entry)
    ELSE ScoreEntryToJSON(w.entry)

\* C29: SetBan and SetScore make at most two set attempts: the second one is
\* made only after the first met a CAS mismatch, with a token fetched after
\* that; when the second attempt fails too the failure is returned and the
\* store is left as the competing writer wrote it; a call that has returned
\* makes no further attempt
C29_AtMostTwoSetAttempts ==
    [][\A c \in Ctx :
          LET w == cas.call[c]
              v == cas'.call[c]
          IN  /\ v.attempts <= 2
              /\ (w.attempts = 1 /\ v.attempts = 2) =>
                     /\ w.err = "CasMismatch"
                     /\ w.pc \in {"RetrySet", "BanRetrySet"}
                     /\ v.pc = "done"
              /\ (w.pc \in {"Retry", "BanRetry"} /\ v.pc # w.pc) =>
                     /\ v.pc \in {"RetrySet", "BanRetrySet"}
                     /\ v.cas = shared[SetKey(w)].cas
                     /\ v.attempts = 1
              /\ (w.pc # "done" /\ v.pc = "done" /\ v.err # "ok") =>
                     /\ v.attempts = 2
                     /\ v.err = "CasMismatch"
                     /\ shared' = shared
              /\ (w.pc # "done" /\ v.pc = "done" /\ v.err = "ok") =>
                     /\ shared'[SetKey(w)].data = SetData(w)
                     /\ shared'[SetKey(w)].cas = shared[SetKey(w)].cas + 1
              /\ w.pc = "done" => v = w]_vars

\* a SetBan has met two CAS mismatches and returned the failure, the store
\* holding the record of the writer that came in between
C29_Witness ==
    \E c, d \in Ctx :
        /\ c # d
        /\ cas.call[c].pc = "done" /\ cas.call[c].err = "CasMismatch"
        /\ cas.call[c].attempts = 2
        /\ "ttl" \in DOMAIN cas.call[c].entry
        /\ cas.call[d].pc = "done" /\ cas.call[d].err = "ok"
        /\ "ttl" \in DOMAIN cas.call[d].entry
        /\ cas.call[d].entry # cas.call[c].entry
        /\ shared[BanKey(cas.call[c].fingerprint)].data = BanEntryToJSON(cas.call[d].entry)

(***************************************************************************)
(* LocalBanStore.CheckBan with its lazy deletion, host call by host call,  *)
(* beside the SetBan of other contexts.                                    *)
(***************************************************************************)
\* CheckBan up to its return or to the call of DeleteBan: one GetSharedData,
\* whose cas is dropped, the parse and the expiry test
CheckBan_Read(c, fingerprint) ==
    /\ cas.call[c].pc = "idle"
    /\ LET got == GetSharedData(shared, BanKey(fingerprint))
           dec == BanEntryFromJSON(got.data)
           expired == /\ got.err = "ok" /\ got.data.kind # "empty" /\ ~dec.err
                      /\ IsExpired(dec.entry)
       IN  cas' = [cas EXCEPT !.call[c] =
                     [IdleCall EXCEPT !.pc = IF expired THEN "Delete" ELSE "done",
                                      !.fingerprint = fingerprint,
                                      !.entry = IF expired THEN dec.entry ELSE Nil,
                                      !.err = "ok"]]
    /\ UNCHANGED <<now, config, shared, http, svc, api>>

\* DeleteBan: GetSharedData for the current cas of the key
DeleteBan_GetCas(c) ==
    /\ cas.call[c].pc = "Delete"
    /\ cas' = [cas EXCEPT !.call[c].pc = "DeleteSet",
                          !.call[c].cas =
                              GetSharedData(shared, BanKey(cas.call[c].fingerprint)).cas]
    /\ UNCHANGED <<now, config, shared, http, svc, api>>

\* DeleteBan: SetSharedData of empty bytes with that cas; CheckBan drops the
\* outcome and reports the fingerprint as not banned
DeleteBan_Set(c) ==
    /\ cas.call[c].pc = "DeleteSet"
    /\ LET w == cas.call[c]
           set == SetSharedData(shared, BanKey(w.fingerprint), EmptyBytes, w.cas)
       IN  /\ shared' = set.tbl
           /\ cas' = [cas EXCEPT !.call[c].pc = "done", !.call[c].err = set.err]
    /\ UNCHANGED <<now, config, http, svc, api>>

InitLazy ==
    /\ InitStores
    /\ config \in {cf \in Configs :
                       /\ cf.RedisCluster = "" /\ ~cf.DryRun
                       /\ ~cf.ScoringEnabled /\ ~cf.InjectCookie}

NextLazy ==
    \/ \E c \in Ctx, fingerprint \in FPs : CheckBan_Read(c, fingerprint)
    \/ \E c \in Ctx : DeleteBan_GetCas(c)
    \/ \E c \in Ctx : DeleteBan_Set(c)
    \/ \E c \in Ctx, fingerprint \in FPs, severity \in {"high", "medium"} :
          SetBan_GetCas(c, NewBanEntry(fingerprint, "waf-rule:930120", "930120",
                                       severity, GetBanTTL(severity)))
    \/ \E c \in Ctx : SetBan_Set(c)
    \/ \E c \in Ctx : SetBan_RetryGetCas(c)
    \/ \E c \in Ctx : SetBan_RetrySet(c)
    \/ Tick

SpecLazy == InitLazy /\ [][NextLazy]_vars

\* C30: the lazy deletion of CheckBan never erases an unexpired ban: a ban
\* record that the delete overwrites with empty bytes has expired, also when
\* another context has written it after the expired read
C30_Stated_LazyDeleteKeepsFreshBan ==
    [][\A c \in Ctx :
          (DeleteBan_Set(c) /\ HoldsBanRecord(cas.call[c].fingerprint)
             /\ shared'[BanKey(cas.call[c].fingerprint)].data = EmptyBytes) =>
                IsExpired(BanEntryFromJSON(
                              shared[BanKey(cas.call[c].fingerprint)].data).entry)]_vars


(***************************************************************************)
(* Requests of a banned fingerprint and the expiry of its ban.             *)
(***************************************************************************)
\* the ban record stored under ban:<fp> lapses ttl seconds after it was created
LapsesAfterTTL(tbl, fp) ==
    (tbl[BanKey(fp)].cas # 0 /\ tbl[BanKey(fp)].data.kind = "json") =>
        tbl[BanKey(fp)].data.obj.expires_at =
            tbl[BanKey(fp)].data.obj.created_at + tbl[BanKey(fp)].data.obj.ttl

\* C31: requests of an already-banned fingerprint never extend its ban: the
\* request-headers hook that flags a request banned from the local store and
\* the response-headers hook of a banned request leave the local store as it
\* was, a delivered remote record is stored with the expires_at it came with,
\* and every stored ban record lapses ttl seconds after its creation
C31_BannedRequestsNeverExtendBan ==
    [][\A c \in Ctx :
          /\ (IsRequestHeaders(c) /\ http'[c].isBanned) => shared' = shared
          /\ (IsResponseHeaders(c) /\ http[c].isBanned) => shared' = shared
          /\ (http[c].phase = "paused" /\ RemoteConfirmed(http'[c])) =>
                /\ http'[c].isBanned
                /\ shared'[BanKey(http[c].fingerprint)].data.obj.expires_at =
                       http'[c].delivered.obj.expires_at
          /\ \A fp \in FPs : LapsesAfterTTL(shared', fp)]_vars

\* a request was denied from the local store after its fingerprint's ban had
\* aged, and the record still carries its original expiry
C31_Witness ==
    \E c \in Ctx :
       /\ http[c].phase = "done"
       /\ http[c].isBanned
       /\ http[c].calls = <<>>
       /\ HasUnexpiredBan(http[c].fingerprint)
       /\ shared[BanKey(http[c].fingerprint)].data.obj.created_at < now


(***************************************************************************)
(* The rule hits of a stored score record.                                 *)
(***************************************************************************)
\* the rule_hits of the score record the local store holds for a fingerprint,
\* as decoded from its stored bytes; empty when none is held
StoredRuleHits(tbl, fingerprint) ==
    IF tbl[ScoreKey(fingerprint)].cas # 0 /\ tbl[ScoreKey(fingerprint)].data.kind = "json"
    THEN ScoreEntryFromJSON(tbl[ScoreKey(fingerprint)].data).entry.rule_hits
    ELSE <<>>

\* C32 as stated: each score increment appends exactly one rule_hits entry
\* with score = increment and timestamp = now to the fingerprint's stored score
\* record, after the entries it held before
C32_Stated_IncrementAppendsRuleHit ==
    [][\A fingerprint \in FPs, increment \in Increments :
          IncrScore(fingerprint, increment) =>
             LET before == StoredRuleHits(shared, fingerprint)
                 after == StoredRuleHits(shared', fingerprint)
             IN  /\ Len(after) = Len(before) + 1
                 /\ SubSeq(after, 1, Len(before)) = before
                 /\ after[Len(after)].score = increment
                 /\ after[Len(after)].timestamp = now]_vars


(***************************************************************************)
(* BanService.issueScoreBasedBan of one worker, host call by host call,    *)
(* while the other workers write the same keys of the shared-data table:   *)
(* IncrScore and SetBan fail when both their set attempts meet a mismatch.  *)
(***************************************************************************)
\* the writes one key takes from the other workers
MaxWrites == 3

\* the worker whose service call is followed, and where its call returned:
\* after IncrScore failed, after SetBan failed, after the issued event, or
\* below the threshold
Svc == "r1"
Returns == {"retScoreErr", "retBanErr", "retIssued", "retBelow"}

\* IssueBan for a blocking decision in scoring mode, up to SetScore within
\* IncrScore: the defaults of IssueBan, GetScore of the configuration, then
\* GetScore of the store, DecayScore and the addition
IssueBan_IncrScore(fingerprint, metadata) ==
    /\ cas.call[Svc].pc \in {"idle"} \cup Returns
    /\ Len(api) < MaxRequests
    /\ LET severity == IF metadata.Severity = "" THEN "medium" ELSE metadata.Severity
           ruleID == IF metadata.RuleID = "" THEN "unknown" ELSE metadata.RuleID
           scoreIncrement == PluginConfig_GetScore(ruleID, severity)
           got == LocalScoreStore_GetScore(shared, fingerprint)
           entry == IF got.found THEN got.entry ELSE NewScoreEntry(fingerprint)
           decayed == DecayScore(entry, config.ScoreDecaySeconds)
           added == [decayed EXCEPT !.score = @ + scoreIncrement]
       IN  /\ cas' = [cas EXCEPT !.call[Svc] =
                        [IdleCall EXCEPT !.pc = "SetScore", !.fingerprint = fingerprint,
                                         !.increment = scoreIncrement,
                                         !.entry = added, !.score = added.score]]
           /\ api' = Append(api, [op |-> "IssueBan", fingerprint |-> fingerprint,
                                  arg |-> [RuleID |-> ruleID, Severity |-> severity],
                                  at |-> now, first |-> Len(svc.events),
                                  ret |-> "", out |-> Nil])
    /\ svc' = [svc EXCEPT !.result = Nil, !.calls = @ + 1]
    /\ UNCHANGED <<now, config, shared, http>>

\* the call returns at pc with result
Return(pc, result) ==
    /\ cas' = [cas EXCEPT !.call[Svc].pc = pc]
    /\ api' = [api EXCEPT ![Len(api)].ret = pc, ![Len(api)].out = result]

\* variant of the step after IncrScore: the score_updated event is emitted
\* before the error of IncrScore is looked at
issueScoreBasedBan_afterIncrScore_eventFirst(c) ==
    /\ cas.call[c].pc = "done"
    /\ Len(svc.events) = api[Len(api)].first
    /\ LET w == cas.call[c]
           call == api[Len(api)]
           scoreEvent == [NewBanEvent("score_updated", w.fingerprint, call.arg.RuleID,
                                      call.arg.Severity, "local")
                            EXCEPT !.Score = w.score, !.Threshold = config.ScoreThreshold]
       IN  /\ svc' = [svc EXCEPT !.events = Append(@, scoreEvent),
                                 !.result = [Issued |-> FALSE, Entry |-> Nil, Score |-> 0]]
           /\ Return("retScoreErr", [Issued |-> FALSE, Entry |-> Nil, Score |-> 0])
    /\ UNCHANGED <<now, config, shared, http>>

\* issueScoreBasedBan after IncrScore returned: on its error the call returns
\* not-issued with score 0; otherwise the score_updated event, and below the
\* threshold the return, at or above it the ban entry and the first host call
\* of SetBan
issueScoreBasedBan_afterIncrScore(c) ==
    /\ cas.call[c].pc = "done"
    /\ Len(svc.events) = api[Len(api)].first
    /\ LET w == cas.call[c]
           call == api[Len(api)]
           newScore == w.score
           scoreEvent == [NewBanEvent("score_updated", w.fingerprint, call.arg.RuleID,
                                      call.arg.Severity, "local")
                            EXCEPT !.Score = newScore, !.Threshold = config.ScoreThreshold]
           entry == [NewBanEntry(w.fingerprint, "score-threshold:" \o ToString(newScore),
                                 call.arg.RuleID, call.arg.Severity,
                                 GetBanTTL(call.arg.Severity))
                       EXCEPT !.score = newScore]
           below == [Issued |-> FALSE, Entry |-> Nil, Score |-> newScore]
           failed == [Issued |-> FALSE, Entry |-> Nil, Score |-> 0]
       IN  IF w.err # "ok"
           THEN /\ svc' = [svc EXCEPT !.result = failed]
                /\ Return("retScoreErr", failed)
           ELSE IF newScore >= config.ScoreThreshold
                THEN /\ svc' = [svc EXCEPT !.events = Append(@, scoreEvent)]
                     /\ cas' = [cas EXCEPT !.call[c].pc = "BanSet",
                                           !.call[c].entry = entry,
                                           !.call[c].err = "",
                                           !.call[c].cas =
                                               GetSharedData(shared,
                                                             BanKey(w.fingerprint)).cas]
                     /\ api' = api
           ELSE /\ svc' = [svc EXCEPT !.events = Append(@, scoreEvent),
                                      !.result = below]
                /\ Return("retBelow", below)
    /\ UNCHANGED <<now, config, shared, http>>

\* issueScoreBasedBan after SetBan returned: on its error the call returns
\* not-issued with the new score; otherwise the issued event and the result
issueScoreBasedBan_afterSetBan(c) ==
    /\ cas.call[c].pc = "done"
    /\ Len(svc.events) > api[Len(api)].first
    /\ LET w == cas.call[c]
           call == api[Len(api)]
           issuedEvent == [NewBanEvent("issued", w.fingerprint, call.arg.RuleID,
                                       call.arg.Severity, "local")
                             EXCEPT !.TTL = GetBanTTL(call.arg.Severity),
                                    !.Score = w.score]
           failed == [Issued |-> FALSE, Entry |-> Nil, Score |-> w.score]
           issued == [Issued |-> TRUE, Entry |-> w.entry, Score |-> w.score]
       IN  IF w.err # "ok"
           THEN /\ svc' = [svc EXCEPT !.result = failed]
                /\ Return("retBanErr", failed)
           ELSE /\ svc' = [svc EXCEPT !.events = Append(@, issuedEvent),
                                      !.result = issued]
                /\ Return("retIssued", issued)
    /\ UNCHANGED <<now, config, shared, http>>

\* another worker completes an IncrScore of its own
OtherWorker_IncrScore(fingerprint, increment) ==
    /\ shared[ScoreKey(fingerprint)].cas < MaxWrites
    /\ shared' = LocalScoreStore_IncrScore(shared, fingerprint, increment).tbl
    /\ UNCHANGED <<now, config, http, svc, cas, api>>

\* another worker completes a SetBan of its own
OtherWorker_SetBan(entry) ==
    /\ shared[BanKey(entry.fingerprint)].cas < MaxWrites
    /\ shared' = LocalBanStore_SetBan(shared, entry).tbl
    /\ UNCHANGED <<now, config, http, svc, cas, api>>

InitScoreBan ==
    /\ now = 0
    /\ config \in {cf \in Configs :
                       /\ cf.RedisCluster = "" /\ ~cf.DryRun
                       /\ cf.ScoringEnabled /\ ~cf.InjectCookie}
    /\ http = [c \in Ctx |-> NewHttpContext]
    /\ svc = [events |-> <<>>, result |-> Nil, calls |-> 0]
    /\ api = <<>>
    /\ \E prior \in {p \in [FPs -> PriorScores] : p["fpB"] = 0} :
          /\ shared = PriorTable(prior)
          /\ cas = [prior |-> prior, call |-> [c \in Ctx |-> IdleCall]]

NextScoreBan ==
    \/ \E metadata \in SvcDecisions : IssueBan_IncrScore("fpA", metadata)
    \/ SetScore_GetCas(Svc)
    \/ SetScore_Set(Svc)
    \/ SetScore_RetryGetCas(Svc)
    \/ SetScore_RetrySet(Svc)
    \/ issueScoreBasedBan_afterIncrScore(Svc)
    \/ SetBan_Set(Svc)
    \/ SetBan_RetryGetCas(Svc)
    \/ SetBan_RetrySet(Svc)
    \/ issueScoreBasedBan_afterSetBan(Svc)
    \/ OtherWorker_IncrScore("fpA", 40)
    \/ OtherWorker_SetBan(NewBanEntry("fpA", "waf-rule:930120", "930120",
                                      "high", GetBanTTL("high")))

SpecScoreBan == InitScoreBan /\ [][NextScoreBan]_vars

\* the events the handler received during call i, once it has returned
EventsOf(i) ==
    SubSeq(svc.events, api[i].first + 1,
           IF i < Len(api) THEN api[i + 1].first ELSE Len(svc.events))

\* the calls of IssueBan that returned at pc
Returned(pc) == {i \in 1..Len(api) : api[i].ret = pc}

\* the service call is between IssueBan's entry and the return of IncrScore
InIncrScore ==
    /\ cas.call[Svc].pc \in {"SetScore", "Set", "Retry", "RetrySet", "done"}
    /\ Len(svc.events) = api[Len(api)].first

\* C33: in scoring mode the score_updated event of an issue call comes before
\* any issued event of that call; when the score update fails the call emits
\* no event, writes no ban record and returns not-issued; when persisting the
\* ban fails the call emits no issued event and returns not-issued with the
\* new score
C33_ScoreBanFailures ==
    [][/\ \A i \in 1..Len(api') :
             LET events == SubSeq(svc'.events, api'[i].first + 1,
                                  IF i < Len(api') THEN api'[i + 1].first
                                  ELSE Len(svc'.events))
             IN  /\ \A k \in 1..Len(events) :
                       events[k].Type = "issued" =>
                          k = 2 /\ events[1].Type = "score_updated"
                 /\ api'[i].ret = "retScoreErr" =>
                       /\ events = <<>>
                       /\ ~api'[i].out.Issued
                 /\ api'[i].ret = "retBanErr" =>
                       /\ Len(events) = 1
                       /\ events[1].Type = "score_updated"
                       /\ events[1].Score = api'[i].out.Score
                       /\ ~api'[i].out.Issued
                       /\ api'[i].out.Score >= config.ScoreThreshold
       /\ (InIncrScore /\ cas'.call[Svc] # cas.call[Svc]) =>
             \A fp \in FPs : shared'[BanKey(fp)] = shared[BanKey(fp)]]_vars

\* one call of the service returned after a failed score update and another
\* one after a failed ban write
C33_Witness ==
    /\ Returned("retScoreErr") # {}
    /\ Returned("retBanErr") # {}


(***************************************************************************)
(* Remote ban checks answered with a record that has expired in the remote *)
(* store's hands: records of every severity, written at any earlier second. *)
(***************************************************************************)
\* the replies that carry a stored record of the fingerprint which has passed
\* its expires_at on receipt
ExpiredReplies(fingerprint) ==
    {[readable |-> TRUE, status |-> "200", body |-> StringBody(BanEntryToJSON(e))] :
        e \in {s \in StoredRemotely : s.fingerprint = fingerprint /\ IsExpired(s)}}

InitExpired ==
    /\ InitStores
    /\ config \in {cf \in Configs : /\ cf.RedisCluster # "" /\ ~cf.DryRun
                                    /\ ~cf.ScoringEnabled /\ ~cf.InjectCookie}

NextExpired ==
    \/ \E c \in Ctx, fp \in FPs, ok \in BOOLEAN :
          \E gen \in GeneratedCookies(fp) : OnHttpRequestHeaders(c, fp, gen, ok)
    \/ \E c \in Ctx :
          \E reply \in Replies(http[c].fingerprint) : OnRedisBanCheckResponse(c, reply)
    \/ \E c \in Ctx :
          \E reply \in ExpiredReplies(http[c].fingerprint) :
             OnRedisBanCheckResponse(c, reply)
    \/ \E c \in Ctx, statusCode \in {200, 403}, metadata \in Decisions \cup {Nil} :
          OnHttpResponseHeaders(c, statusCode, metadata)
    \/ Tick

SpecExpired == InitExpired /\ [][NextExpired]_vars

\* C34: when the reply to the remote ban check carries a record that is
\* already expired on receipt, a DEL of ban:<fingerprint> is dispatched and the
\* record is reported absent: the request is resumed without the banned flag
\* and without a deny response, and the local store is left as it was
C34_ExpiredRemoteRecordIsAbsent ==
    [][\A c \in Ctx :
          \A reply \in ExpiredReplies(http[c].fingerprint) :
             OnRedisBanCheckResponse(c, reply) =>
                /\ http'[c].calls =
                      Append(http[c].calls,
                             [cmd |-> "DEL", key |-> BanKey(http[c].fingerprint),
                              ok |-> TRUE])
                /\ ~http'[c].isBanned
                /\ http'[c].response = NoResponse
                /\ http'[c].phase = "upstream"
                /\ http'[c].resumed = 1
                /\ ~http'[c].pendingRedis
                /\ shared' = shared]_vars

\* a request went on upstream after its remote check had been answered with an
\* expired record, whose delete it dispatched
C34_Witness ==
    \E c \in Ctx :
       /\ http[c].phase = "upstream"
       /\ ~http[c].isBanned
       /\ \E i \in 1..Len(http[c].calls) :
             http[c].calls[i] = [cmd |-> "DEL", key |-> BanKey(http[c].fingerprint),
                                 ok |-> TRUE]


(***************************************************************************)
(* ban.go: MetadataService.Extract, the WAF decision of a response.        *)
(***************************************************************************)
\* the three dynamic-metadata paths, in the order Extract tries them
metadataPaths ==
    <<<<"metadata", "filter_metadata", "envoy.filters.http.wasm", "coraza">>,
      <<"metadata", "filter_metadata", "coraza">>,
      <<"metadata", "filter_metadata", "envoy.filters.http.coraza">>>>

\* a CorazaMetadata of the fields the plugin acts on
CorazaMetadata(action, ruleID, severity) ==
    [Action |-> action, RuleID |-> ruleID, Severity |-> severity]

\* strings.TrimSpace of a string given by its characters
RECURSIVE TrimLeft(_)
TrimLeft(s) == IF s # <<>> /\ Head(s) = " " THEN TrimLeft(Tail(s)) ELSE s

RECURSIVE TrimRight(_)
TrimRight(s) ==
    IF s # <<>> /\ s[Len(s)] = " " THEN TrimRight(SubSeq(s, 1, Len(s) - 1)) ELSE s

TrimSpace(s) == TrimRight(TrimLeft(s))

\* strings.Split(value, ";"): the pieces between the semicolons
RECURSIVE Split(_, _)
Split(s, sep) ==
    IF \E i \in 1..Len(s) : s[i] = sep
    THEN LET i == CHOOSE k \in 1..Len(s) : s[k] = sep /\ \A j \in 1..(k - 1) : s[j] # sep
         IN  <<SubSeq(s, 1, i - 1)>> \o Split(SubSeq(s, i + 1, Len(s)), sep)
    ELSE <<s>>

\* strings.SplitN(part, "=", 2): the piece before the first "=" and the rest,
\* or the part alone
SplitN2(part) ==
    IF \E i \in 1..Len(part) : part[i] = "="
    THEN LET i == CHOOSE k \in 1..Len(part) :
                      part[k] = "=" /\ \A j \in 1..(k - 1) : part[j] # "="
         IN  <<SubSeq(part, 1, i - 1), SubSeq(part, i + 1, Len(part))>>
    ELSE <<part>>

\* the loop of parseStringMetadata over the parts: a later value of a key
\* replaces an earlier one
RECURSIVE parseParts(_, _)
parseParts(parts, metadata) ==
    IF parts = <<>> THEN metadata
    ELSE LET kv == SplitN2(Head(parts))
             key == TrimSpace(kv[1])
             val == TrimSpace(kv[2])
             next == IF Len(kv) # 2 THEN metadata
                     ELSE IF key = <<"action">> THEN [metadata EXCEPT !.Action = val]
                     ELSE IF key = <<"rule_id">> THEN [metadata EXCEPT !.RuleID = val]
                     ELSE IF key = <<"severity">> THEN [metadata EXCEPT !.Severity = val]
                     ELSE metadata
         IN  parseParts(Tail(parts), next)

\* parseStringMetadata: the record of the key=value list, nil when it has no
\* action
parseStringMetadata(value) ==
    LET metadata == parseParts(Split(value, ";"), CorazaMetadata(<<>>, <<>>, <<>>))
    IN  IF metadata.Action = <<>> THEN Nil ELSE metadata

\* json.Unmarshal into a CorazaMetadata: a field the object lacks stays empty
UnmarshalMetadata(obj) ==
    CorazaMetadata(IF "action" \in DOMAIN obj THEN obj.action ELSE <<>>,
                   IF "rule_id" \in DOMAIN obj THEN obj.rule_id ELSE <<>>,
                   IF "severity" \in DOMAIN obj THEN obj.severity ELSE <<>>)

\* tryExtractMetadata on the value GetProperty returns for a path: an error,
\* no bytes, a JSON object, or text that is not JSON
tryExtractMetadata(value) ==
    IF value.kind = "error" THEN Nil
    ELSE IF value.kind = "empty" THEN Nil
    ELSE IF value.kind = "json" THEN UnmarshalMetadata(value.obj)
    ELSE parseStringMetadata(value.text)

\* extractFromHeaders: headers holds the x-coraza-* response headers present
extractFromHeaders(headers) ==
    IF "x-coraza-action" \notin DOMAIN headers \/ headers["x-coraza-action"] = <<>>
    THEN Nil
    ELSE CorazaMetadata(headers["x-coraza-action"],
                        IF "x-coraza-rule-id" \in DOMAIN headers
                        THEN headers["x-coraza-rule-id"] ELSE <<>>,
                        IF "x-coraza-severity" \in DOMAIN headers
                        THEN headers["x-coraza-severity"] ELSE <<>>)

\* MetadataService.Extract: properties gives the value of each path
MetadataService_Extract(properties, headers) ==
    IF tryExtractMetadata(properties[1]) # Nil THEN tryExtractMetadata(properties[1])
    ELSE IF tryExtractMetadata(properties[2]) # Nil THEN tryExtractMetadata(properties[2])
    ELSE IF tryExtractMetadata(properties[3]) # Nil THEN tryExtractMetadata(properties[3])
    ELSE extractFromHeaders(headers)

\* the values a metadata path can hold, and the x-coraza-* headers of a response
PropertyValues ==
    {[kind |-> "error"], [kind |-> "empty"],
     [kind |-> "json", obj |-> [action |-> <<"b", "l", "o", "c", "k">>,
                                rule_id |-> <<"9", "3", "0">>]],
     [kind |-> "json", obj |-> [rule_id |-> <<"9", "4", "2">>]],
     [kind |-> "text", text |-> <<"action", "=", "d", "e", "n", "y", ";",
                                  " ", "severity", " ", "=", "h", "i", "g", "h">>],
     [kind |-> "text", text |-> <<"rule_id", "=", "9", "1", "1", ";", "action">>]}

ResponseHeaderSets ==
    {<<>>,
     [h \in {"x-coraza-action"} |-> <<"d", "r", "o", "p">>],
     [h \in {"x-coraza-action", "x-coraza-rule-id"} |->
         IF h = "x-coraza-action" THEN <<>> ELSE <<"9", "1", "3">>]}

\* a call of Extract on a response
Extract(properties, headers) ==
    /\ api' = <<[op |-> "Extract", arg |-> [properties |-> properties,
                                            headers |-> headers],
                 out |-> MetadataService_Extract(properties, headers)]>>
    /\ UNCHANGED <<now, config, shared, http, svc, cas>>

InitExtract ==
    /\ InitStores
    /\ config \in {cf \in Configs : /\ cf.RedisCluster = "" /\ ~cf.DryRun
                                    /\ ~cf.ScoringEnabled /\ ~cf.InjectCookie}

NextExtract ==
    \E properties \in [1..3 -> PropertyValues], headers \in ResponseHeaderSets :
        Extract(properties, headers)

SpecExtract == InitExtract /\ [][NextExtract]_vars

\* the record a metadata value parses to, as JSON or as a key=value list
Parsed(value) ==
    IF value.kind \in {"error", "empty"} THEN Nil
    ELSE IF value.kind = "json" THEN UnmarshalMetadata(value.obj)
    ELSE parseParts(Split(value.text, ";"), CorazaMetadata(<<>>, <<>>, <<>>))

\* the sources of a call in lookup order, each with the record it yields
Sources(arg) ==
    <<Parsed(arg.properties[1]), Parsed(arg.properties[2]),
      Parsed(arg.properties[3]), extractFromHeaders(arg.headers)>>

\* C35 as stated: Extract returns the record of the first source, in the order
\* of the three metadata paths and then the response headers, that yields a
\* record with a non-empty action, a parsed record with empty action being
\* discarded; it returns nil when no source yields one
C35_Stated_FirstSourceWithAction ==
    \A i \in Calls("Extract") :
        LET sources == Sources(api[i].arg)
            yielding == {k \in 1..4 : sources[k] # Nil /\ sources[k].Action # <<>>}
        IN  IF yielding = {} THEN api[i].out = Nil
            ELSE api[i].out = sources[CHOOSE k \in yielding : \A j \in yielding : k <= j]


(***************************************************************************)
(* The score record across a score-threshold ban.                          *)
(***************************************************************************)
\* the local store holds a score-threshold ban of fp that has expired
HoldsExpiredScoreBan(fp) ==
    /\ shared[BanKey(fp)].cas # 0
    /\ shared[BanKey(fp)].data.kind = "json"
    /\ "score" \in DOMAIN shared[BanKey(fp)].data.obj
    /\ now > shared[BanKey(fp)].data.obj.expires_at

\* C36: issuing a score-threshold ban leaves the fingerprint's score record
\* as the increment left it, neither reset nor reduced, so that the first
\* IssueBan after that ban has expired issues a new ban whenever the decayed
\* score plus the increment is still at or above the threshold
C36_ScoreKeptAcrossBan ==
    [][\A fp \in FPs, m \in SvcDecisions :
          (config.ScoringEnabled /\ IssueBan(fp, m)) =>
             LET newScore == DecayedScore(fp)
                               + PluginConfig_GetScore(NormalRuleID(m), NormalSeverity(m))
             IN  /\ svc'.result.Issued =>
                       /\ newScore >= config.ScoreThreshold
                       /\ shared'[ScoreKey(fp)].cas # 0
                       /\ ScoreEntryFromJSON(shared'[ScoreKey(fp)].data).entry.score
                             = newScore
                 /\ (HoldsExpiredScoreBan(fp) /\ newScore >= config.ScoreThreshold) =>
                       /\ svc'.result.Issued
                       /\ shared'[BanKey(fp)].data.obj.created_at = now
                       /\ shared'[BanKey(fp)].data.obj.score = newScore
                       /\ now <= shared'[BanKey(fp)].data.obj.expires_at]_vars

\* a second score-threshold ban was issued for a fingerprint after its first
\* one had expired, on a score that still held what the first ban was issued on
C36_Witness ==
    /\ config.ScoringEnabled
    /\ svc.result # Nil
    /\ "Issued" \in DOMAIN svc.result
    /\ svc.result.Issued
    /\ \E i, j \in 1..Len(svc.events) :
          /\ i < j
          /\ j = Len(svc.events)
          /\ svc.events[i].Type = "issued"
          /\ svc.events[j].Type = "issued"
          /\ svc.events[i].Fingerprint = svc.events[j].Fingerprint
          /\ svc.events[i].Timestamp + svc.events[i].TTL < svc.events[j].Timestamp
          /\ svc.events[j].Score > svc.events[i].Score


(***************************************************************************)
(* The ban service in scoring mode with a Redis cluster configured.        *)
(***************************************************************************)
InitScoreSync ==
    /\ InitStores
    /\ config \in {cf \in Configs : /\ cf.RedisCluster # "" /\ ~cf.DryRun
                                    /\ cf.ScoringEnabled /\ ~cf.InjectCookie}

NextScoreSync ==
    \/ \E fingerprint \in FPs : CheckBan(fingerprint)
    \/ \E fingerprint \in FPs, metadata \in SvcDecisions :
          IssueBan(fingerprint, metadata)
    \/ Tick

SpecScoreSync == InitScoreSync /\ [][NextScoreSync]_vars

\* the calls of WebdisClient.IncrScoreAsync for a fingerprint in a call log
RemoteIncrements(log, fingerprint) ==
    {i \in 1..Len(log) : /\ log[i].op = "IncrScoreAsync"
                         /\ log[i].arg.fingerprint = fingerprint}

\* C37 as stated: in scoring mode with the remote store configured, each
\* IssueBan for a blocking decision makes exactly one call of IncrScoreAsync
\* for the fingerprint
C37_Stated_OneRemoteIncrementPerIssue ==
    [][\A fp \in FPs, m \in SvcDecisions :
          (/\ config.ScoringEnabled /\ WebdisClient_IsConfigured
           /\ IsBlocked(m) /\ IssueBan(fp, m)) =>
             Cardinality(RemoteIncrements(api', fp))
                = Cardinality(RemoteIncrements(api, fp)) + 1]_vars


(***************************************************************************)
(* dry_run on and off, side by side: the plugin is started again with      *)
(* dry_run flipped, and at that moment every handler is run on the same     *)
(* context, store and input under both settings.                           *)
(***************************************************************************)
\* OnPluginStart with the configuration that differs in dry_run only
Reconfigure ==
    /\ config' = [config EXCEPT !.DryRun = ~@]
    /\ UNCHANGED <<now, shared, http, svc, cas, api>>

InitDryRun ==
    /\ InitStores
    /\ config \in {cf \in Configs : /\ cf.RedisCluster # ""
                                    /\ ~cf.ScoringEnabled /\ ~cf.InjectCookie}

\* the requests of one client
NextDryRun ==
    \/ \E c \in Ctx, ok \in BOOLEAN : OnHttpRequestHeaders(c, "fpA", "", ok)
    \/ \E c \in Ctx :
          \E reply \in Replies(http[c].fingerprint) : OnRedisBanCheckResponse(c, reply)
    \/ \E c \in Ctx, statusCode \in {200, 403}, metadata \in Decisions \cup {Nil} :
          OnHttpResponseHeaders(c, statusCode, metadata)
    \/ Tick
    \/ Reconfigure

SpecDryRun == InitDryRun /\ [][NextDryRun]_vars

\* the body of OnHttpRequestHeaders on context x with its fingerprint set:
\* [x, tbl]
onHttpRequestHeaders(x, tbl, ok) ==
    LET r == checkBan(x, tbl, ok)
    IN  [x |-> IF r.banned THEN denyRequest(r.x) ELSE r.x, tbl |-> r.tbl]

\* what a handler leaves behind apart from the deny response: the local store
\* and, of the request, its remote dispatches, isBanned and every other field
Effects(r) == [x |-> [r.x EXCEPT !.response = NoResponse], tbl |-> r.tbl]

\* C38: dry_run changes only whether a deny response is sent: each handler,
\* run on the same request context, local store and input with dry_run on and
\* with dry_run off, makes the same local-store writes and remote dispatches,
\* emits the same events and leaves the same isBanned; a deny response already
\* sent changes nothing of that, and the response hook of a request flagged
\* banned does the same whatever response it is given
C38_DryRunChangesOnlyTheResponse ==
    [][(config'.DryRun # config.DryRun) =>
          /\ svc' = svc
          /\ \A c \in Ctx, fp \in FPs, ok \in BOOLEAN :
                LET x == [http[c] EXCEPT !.fingerprint = fp]
                IN  http[c].phase = "new" =>
                       Effects(onHttpRequestHeaders(x, shared, ok))
                          = (Effects(onHttpRequestHeaders(x, shared, ok)))'
          /\ \A c \in Ctx :
                http[c].phase = "paused" =>
                   \A reply \in Replies(http[c].fingerprint) :
                      Effects(onRedisBanCheckResponse(http[c], shared, reply))
                         = (Effects(onRedisBanCheckResponse(http[c], shared, reply)))'
          /\ \A c \in Ctx, statusCode \in {200, 403}, metadata \in Decisions \cup {Nil} :
                http[c].phase \in {"upstream", "replied"} =>
                   /\ Effects(onHttpResponseHeaders(http[c], shared, statusCode, metadata))
                         = (Effects(onHttpResponseHeaders(
                                       [http[c] EXCEPT !.response = NoResponse],
                                       shared, statusCode, metadata)))'
                   /\ http[c].isBanned =>
                         Effects(onHttpResponseHeaders(http[c], shared, statusCode,
                                                       metadata))
                            = Effects(onHttpResponseHeaders(http[c], shared, 403, Nil))]_vars

\* with dry_run on, a request was flagged banned and went on without a deny
\* response, where a request of the same fingerprint was denied with dry_run
\* off
C38_Witness ==
    /\ config.DryRun
    /\ \E c, d \in Ctx :
          /\ http[c].fingerprint = http[d].fingerprint
          /\ http[c].isBanned /\ http[c].response = NoResponse
          /\ http[c].phase = "done"
          /\ http[d].isBanned /\ http[d].response = DenyResponse


(***************************************************************************)
(* The keys an operation for one fingerprint reads and writes.             *)
(***************************************************************************)
InitFrame ==
    /\ InitStores
    /\ config \in {cf \in Configs : /\ cf.RedisCluster # "" /\ ~cf.DryRun
                                    /\ cf.ScoringEnabled /\ ~cf.InjectCookie}

NextFrame ==
    \/ \E fingerprint \in FPs : CheckBan(fingerprint)
    \/ \E fingerprint \in FPs, metadata \in SvcDecisions : IssueBan(fingerprint, metadata)
    \/ \E fingerprint \in FPs : api = <<>> /\ IncrScore(fingerprint, 20)
    \/ \E entry \in UNION {FleetEntries(f) : f \in FPs} : SyncBanFromRedis(entry)
    \/ Tick

SpecFrame == InitFrame /\ [][NextFrame]_vars

\* the keys of a fingerprint: ban:<fp> and score:<fp>
OwnKeys(fingerprint) == {BanKey(fingerprint), ScoreKey(fingerprint)}

\* a table cut down to the keys of a fingerprint, every other key never set
Only(tbl, fingerprint) ==
    [k \in Keys |-> IF k \in OwnKeys(fingerprint) THEN tbl[k]
                    ELSE [data |-> EmptyBytes, cas |-> 0]]

\* the last step left every key of the other fingerprints as it was
OthersUnchanged(fingerprint) ==
    \A k \in Keys \ OwnKeys(fingerprint) : shared'[k] = shared[k]

\* an operation reads the keys of its fingerprint only: on the table cut down
\* to them it returns the same and leaves the same under them
ReadsOwnKeys(full, cut, fingerprint) ==
    /\ [f \in (DOMAIN full) \ {"tbl"} |-> full[f]] = [f \in (DOMAIN cut) \ {"tbl"} |-> cut[f]]
    /\ \A k \in OwnKeys(fingerprint) : full.tbl[k] = cut.tbl[k]

\* C39: check, issue, incr_score, sync_from_remote and the lazy deletion of a
\* check, done for one fingerprint, read and write only ban:<fp> and
\* score:<fp>: the records of every other fingerprint are left unchanged, and
\* what the operation returns and writes does not depend on them
C39_OperationsTouchOwnKeysOnly ==
    [][/\ \A fp \in FPs :
             CheckBan(fp) =>
                /\ OthersUnchanged(fp)
                /\ ReadsOwnKeys(BanService_CheckBan(shared, fp),
                                BanService_CheckBan(Only(shared, fp), fp), fp)
       /\ \A fp \in FPs, m \in SvcDecisions :
             IssueBan(fp, m) =>
                /\ OthersUnchanged(fp)
                /\ ReadsOwnKeys(BanService_IssueBan(shared, fp, m),
                                BanService_IssueBan(Only(shared, fp), fp, m), fp)
       /\ \A fp \in FPs :
             IncrScore(fp, 20) =>
                /\ OthersUnchanged(fp)
                /\ ReadsOwnKeys(LocalScoreStore_IncrScore(shared, fp, 20),
                                LocalScoreStore_IncrScore(Only(shared, fp), fp, 20), fp)
       /\ \A entry \in UNION {FleetEntries(f) : f \in FPs} :
             SyncBanFromRedis(entry) =>
                /\ OthersUnchanged(entry.fingerprint)
                /\ ReadsOwnKeys(BanService_SyncBanFromRedis(shared, entry),
                                BanService_SyncBanFromRedis(Only(shared, entry.fingerprint),
                                                            entry),
                                entry.fingerprint)]_vars

\* a check found the ban of one fingerprint expired and emptied its record
\* while the other fingerprint's ban and score records stayed in the store
C39_Witness ==
    \E f, g \in FPs :
       /\ f # g
       /\ shared[BanKey(f)].cas # 0
       /\ shared[BanKey(f)].data = EmptyBytes
       /\ svc.result = [IsBanned |-> FALSE, Entry |-> Nil]
       /\ shared[BanKey(g)].data.kind = "json"
       /\ shared[ScoreKey(g)].data.kind = "json"


====
